---------------------------- MODULE Spec2Model ----------------------------
(***************************************************************************)
(* A model of n6lib.manage_api._ca_env: the temporary OpenSSL CA           *)
(* environment (TmpEnv / DirectoryStructure), the three public operations  *)
(* built on it, and the index / date / serial-number codecs.               *)
(*                                                                         *)
(* Text is modelled as a sequence of one-character strings, a path as the  *)
(* sequence of its components, a dict as a function on strings.  Values of *)
(* different Python types are wrapped in records tagged by the field t, so *)
(* that any two of them can be compared.                                   *)
(***************************************************************************)
EXTENDS Integers, Sequences, FiniteSets, TLC

VARIABLES
    env,    \* the ca_env_configuration bundle the operations are called with
    proc,   \* per caller: the position in, and the locals of, its operation
    fs,     \* the temporary directories on disk and the files under them
    pure    \* the input and the outcome of a codec call (codec specifications)

vars == <<env, proc, fs, pure>>

-----------------------------------------------------------------------------
(* Python values *)

NoVal == [t |-> "none"]

Text(s) == [t |-> "text", v |-> s]

Chars(s) == [t |-> "chars", v |-> s]

Conf(ls) == [t |-> "conf", v |-> ls]

NoErr == [kind |-> "none"]

Err(k) == [kind |-> k]

Raised(e) == [ok |-> FALSE, err |-> e]

Returned(v) == [ok |-> TRUE, v |-> v]

\* x evaluated once, then F of it
Let(x, F(_)) == CHOOSE out \in {F(y) : y \in {x}} : TRUE

\* r evaluated once: the exception it raised, or F of the value it returned
Bind(r, F(_)) == CHOOSE out \in {IF y.ok THEN F(y.v) ELSE y : y \in {r}} : TRUE

RECURSIVE Concat(_)
Concat(ss) == IF ss = << >> THEN << >> ELSE Head(ss) \o Concat(Tail(ss))

IsPrefix(a, b) == Len(a) <= Len(b) /\ SubSeq(b, 1, Len(a)) = a

-----------------------------------------------------------------------------
(* Serial/Date codec *)

HexDigitsLower == {"0", "1", "2", "3", "4", "5", "6", "7", "8", "9",
                   "a", "b", "c", "d", "e", "f"}

UpperChar(c) ==
    CASE c = "a" -> "A" [] c = "b" -> "B" [] c = "c" -> "C" [] c = "d" -> "D"
      [] c = "e" -> "E" [] c = "f" -> "F" [] c = "g" -> "G" [] OTHER -> c

LowerChar(c) ==
    CASE c = "A" -> "a" [] c = "B" -> "b" [] c = "C" -> "c" [] c = "D" -> "d"
      [] c = "E" -> "e" [] c = "F" -> "f" [] c = "G" -> "g" [] OTHER -> c

StrUpper(s) == [i \in 1..Len(s) |-> UpperChar(s[i])]

StrLower(s) == [i \in 1..Len(s) |-> LowerChar(s[i])]

\* n6lib.auth_db.validators.is_cert_serial_number_valid: the domain's validity
\* rule, a non-empty string of lowercase hexadecimal digits.
is_cert_serial_number_valid(s) ==
    Len(s) > 0 /\ \A i \in 1..Len(s) : s[i] \in HexDigitsLower

\* A mutant of _format_openssl_serial_number: the padding test is inverted.
FormatSerialPadsEven(sn) ==
    IF sn.t \notin {"str", "unicode"} THEN Raised(Err("TypeError"))
    ELSE LET up == StrUpper(sn.v)
             padded == IF Len(up) % 2 = 0 THEN <<"0">> \o up ELSE up
         IN  IF ~is_cert_serial_number_valid(StrLower(padded))
             THEN Raised(Err("ValueError"))
             ELSE Returned([t |-> "str", v |-> padded])

\* _format_openssl_serial_number(serial_number); serial_number is a record
\* [t |-> its Python type, v |-> its characters].
_format_openssl_serial_number(sn) ==
    IF sn.t \notin {"str", "unicode"} THEN Raised(Err("TypeError"))
    ELSE LET up == StrUpper(sn.v)
             padded == IF Len(up) % 2 = 1 THEN <<"0">> \o up ELSE up
         IN  IF ~is_cert_serial_number_valid(StrLower(padded))
             THEN Raised(Err("ValueError"))
             ELSE Returned([t |-> "str", v |-> padded])

(* Timestamps: [t |-> "datetime", y, mo, d, h, mi, s, us, aware, off] is a
   datetime.datetime; off is the UTC offset in minutes of an aware one. *)

DateTime(y, mo, d, h, mi, s, us) ==
    [t |-> "datetime", y |-> y, mo |-> mo, d |-> d, h |-> h, mi |-> mi,
     s |-> s, us |-> us, aware |-> FALSE, off |-> 0]

AwareDateTime(y, mo, d, h, mi, s, us, off) ==
    [t |-> "datetime", y |-> y, mo |-> mo, d |-> d, h |-> h, mi |-> mi,
     s |-> s, us |-> us, aware |-> TRUE, off |-> off]

IsLeap(y) == (y % 4 = 0 /\ y % 100 # 0) \/ y % 400 = 0

DaysInMonth(y, mo) ==
    CASE mo \in {4, 6, 9, 11} -> 30
      [] mo = 2 -> IF IsLeap(y) THEN 29 ELSE 28
      [] OTHER -> 31

PrevDay(dt) ==
    IF dt.d > 1 THEN [dt EXCEPT !.d = dt.d - 1]
    ELSE IF dt.mo > 1
         THEN [dt EXCEPT !.mo = dt.mo - 1, !.d = DaysInMonth(dt.y, dt.mo - 1)]
         ELSE [dt EXCEPT !.y = dt.y - 1, !.mo = 12, !.d = 31]

NextDay(dt) ==
    IF dt.d < DaysInMonth(dt.y, dt.mo) THEN [dt EXCEPT !.d = dt.d + 1]
    ELSE IF dt.mo < 12
         THEN [dt EXCEPT !.mo = dt.mo + 1, !.d = 1]
         ELSE [dt EXCEPT !.y = dt.y + 1, !.mo = 1, !.d = 1]

\* n6lib.datetime_helpers.datetime_utc_normalize: a naive datetime is taken
\* as UTC; an aware one is moved to UTC (|off| < one day) and made naive.
datetime_utc_normalize(dt) ==
    IF ~dt.aware THEN dt
    ELSE LET m == dt.h * 60 + dt.mi - dt.off
             day == IF m < 0 THEN PrevDay(dt)
                    ELSE IF m >= 1440 THEN NextDay(dt) ELSE dt
             mm == IF m < 0 THEN m + 1440
                   ELSE IF m >= 1440 THEN m - 1440 ELSE m
         IN  [day EXCEPT !.h = mm \div 60, !.mi = mm % 60,
                         !.aware = FALSE, !.off = 0]

DigitChars == <<"0", "1", "2", "3", "4", "5", "6", "7", "8", "9">>

TwoDigits(n) == <<DigitChars[((n \div 10) % 10) + 1], DigitChars[(n % 10) + 1]>>

\* datetime.strftime("%y%m%d%H%M%SZ") of a naive datetime.
Strftime(dt) ==
    TwoDigits(dt.y % 100) \o TwoDigits(dt.mo) \o TwoDigits(dt.d)
    \o TwoDigits(dt.h) \o TwoDigits(dt.mi) \o TwoDigits(dt.s) \o <<"Z">>

\* A mutant of _format_openssl_dt: the datetime is not normalized to UTC.
FormatDtWithoutNormalize(dt) ==
    IF dt.t = "datetime"
    THEN IF dt.y < 1900 THEN Raised(Err("ValueError"))
         ELSE Returned(Strftime(dt))
    ELSE Raised(Err("TypeError"))

\* _format_openssl_dt(dt)
\* (strftime of Python 2 refuses a year before 1900 with a ValueError)
_format_openssl_dt(dt) ==
    IF dt.t = "datetime"
    THEN LET utc == datetime_utc_normalize(dt)
         IN  IF utc.y < 1900 THEN Raised(Err("ValueError"))
             ELSE Returned(Strftime(utc))
    ELSE Raised(Err("TypeError"))

\* a > b for two naive datetimes (the comparison of datetime.datetime)
NaiveGreater(a, b) ==
    LET ka == <<a.y, a.mo, a.d, a.h, a.mi, a.s, a.us>>
        kb == <<b.y, b.mo, b.d, b.h, b.mi, b.s, b.us>>
    IN  \E i \in 1..7 : ka[i] > kb[i] /\ \A j \in 1..(i - 1) : ka[j] = kb[j]

-----------------------------------------------------------------------------
(* Index codec *)

TAB == "\t"

NL == "\n"

UnknownToken == <<"u", "n", "k", "n", "o", "w", "n">>

\* Certificate record: [serial_hex, subject, expires_on, revoked_on,
\* certificate]; a timestamp attribute is a datetime record, NoVal (None) or
\* a value of another type.

\* A mutant of IndexEntry: an expired record keeps E when it is revoked too.
IndexEntryExpiryWins(cert_data, now) ==
    LET exp == cert_data.expires_on
        rev == cert_data.revoked_on
    IN
    IF exp.t # "none" /\ (exp.t # "datetime" \/ exp.aware)
    THEN Raised(Err("TypeError"))
    ELSE
    LET expired == exp.t # "none" /\ NaiveGreater(now, exp)
        exp_r == IF exp.t = "none" THEN Returned(<< >>) ELSE _format_openssl_dt(exp)
        rev_r == IF rev.t = "none" THEN Returned(<< >>) ELSE _format_openssl_dt(rev)
        entry_type == IF expired THEN "E" ELSE IF rev.t # "none" THEN "R" ELSE "V"
        ser_r == _format_openssl_serial_number(cert_data.serial_hex)
    IN  IF ~exp_r.ok THEN exp_r
        ELSE IF ~rev_r.ok THEN rev_r
        ELSE IF ~ser_r.ok THEN ser_r
        ELSE Returned(<<entry_type, TAB>> \o exp_r.v \o <<TAB>> \o rev_r.v
                      \o <<TAB>> \o ser_r.v.v \o <<TAB>> \o UnknownToken
                      \o <<TAB>> \o cert_data.subject \o <<NL>>)

\* One pass of the loop of _make_openssl_index_file_content: the line of one
\* record, with utcnow() = now.
IndexEntry(cert_data, now) ==
    LET exp == cert_data.expires_on
        rev == cert_data.revoked_on
    IN
    IF exp.t # "none" /\ (exp.t # "datetime" \/ exp.aware)
    THEN Raised(Err("TypeError"))      \* utcnow() > expires_on cannot compare
    ELSE
    LET expired == exp.t # "none" /\ NaiveGreater(now, exp)
        exp_r == IF exp.t = "none" THEN Returned(<< >>) ELSE _format_openssl_dt(exp)
        rev_r == IF rev.t = "none" THEN Returned(<< >>) ELSE _format_openssl_dt(rev)
        entry_type == IF rev.t # "none" THEN "R" ELSE IF expired THEN "E" ELSE "V"
        ser_r == _format_openssl_serial_number(cert_data.serial_hex)
    IN  IF ~exp_r.ok THEN exp_r
        ELSE IF ~rev_r.ok THEN rev_r
        ELSE IF ~ser_r.ok THEN ser_r
        ELSE Returned(<<entry_type, TAB>> \o exp_r.v \o <<TAB>> \o rev_r.v
                      \o <<TAB>> \o ser_r.v.v \o <<TAB>> \o UnknownToken
                      \o <<TAB>> \o cert_data.subject \o <<NL>>)

RECURSIVE IndexLines(_, _)
IndexLines(certs, now) ==
    IF certs = << >> THEN Returned(<< >>)
    ELSE Bind(IndexEntry(Head(certs), now), LAMBDA line :
         Bind(IndexLines(Tail(certs), now), LAMBDA rest :
         Returned(<<line>> \o rest)))

\* A mutant of _make_openssl_index_file_content: each new line is put first.
RECURSIVE MakeIndexPrepending(_, _)
MakeIndexPrepending(certs, now) ==
    IF certs = << >> THEN Returned(<< >>)
    ELSE Bind(IndexEntry(Head(certs), now), LAMBDA line :
         Bind(MakeIndexPrepending(Tail(certs), now), LAMBDA rest :
         Returned(rest \o line)))

\* _make_openssl_index_file_content(cert_data_iterator), with utcnow() = now
_make_openssl_index_file_content(certs, now) ==
    Bind(IndexLines(certs, now), LAMBDA ls : Returned(Concat(ls)))

-----------------------------------------------------------------------------
(* Config document: n6lib.config.ConfigString, a text of lines edited in
   place.  A line is [t, k, v]: a section header ("sect", k its name), an
   option ("opt", k = v, v a sequence of path components or of one word) or
   a line that is neither ("junk"). *)

SectLine(name) == [t |-> "sect", k |-> name, v |-> << >>]

OptLine(k, v) == [t |-> "opt", k |-> k, v |-> v]

JunkLine == [t |-> "junk", k |-> "", v |-> << >>]

Word(w) == <<w>>

\* ConfigString(value): the text itself when every line parses
ConfigString(text) ==
    IF \E i \in 1..Len(text) : text[i].t = "junk"
    THEN Raised(Err("ValueError"))
    ELSE Returned(text)

\* the line number of the header of section sect, 0 when there is none
SectIndex(text, sect) ==
    LET S == {i \in 1..Len(text) : text[i].t = "sect" /\ text[i].k = sect}
    IN  IF S = {} THEN 0 ELSE CHOOSE i \in S : \A j \in S : i <= j

\* the line number of option opt of section sect, 0 when there is none
OptIndex(text, sect, opt) ==
    LET h == SectIndex(text, sect)
        S == {i \in 1..Len(text) :
                /\ h # 0 /\ i > h
                /\ text[i].t = "opt" /\ text[i].k = opt
                /\ \A j \in (h + 1)..i : text[j].t # "sect"}
    IN  IF S = {} THEN 0 ELSE CHOOSE i \in S : \A j \in S : i <= j

\* ConfigString.get_opt_value("sect.opt")
get_opt_value(text, sect, opt) ==
    LET i == OptIndex(text, sect, opt)
    IN  IF i = 0 THEN Raised(Err("KeyError")) ELSE Returned(text[i].v)

\* ConfigString.substitute("sect.opt", line)
substitute(text, sect, opt, line) ==
    LET i == OptIndex(text, sect, opt)
    IN  IF i = 0 THEN Raised(Err("KeyError"))
        ELSE Returned([text EXCEPT ![i] = line])

\* ConfigString.insert_above("sect", lines)
insert_above(text, sect, lines) ==
    LET h == SectIndex(text, sect)
    IN  IF h = 0 THEN Raised(Err("KeyError"))
        ELSE Returned(SubSeq(text, 1, h - 1) \o lines \o SubSeq(text, h, Len(text)))

\* ConfigString.remove("sect.opt")
remove(text, sect, opt) ==
    LET i == OptIndex(text, sect, opt)
    IN  IF i = 0 THEN Raised(Err("KeyError"))
        ELSE Returned(SubSeq(text, 1, i - 1) \o SubSeq(text, i + 1, Len(text)))

\* PKCS11_OPTS_PATTERN.format(**pkcs11_opts_dict)
PKCS11_OPTS_PATTERN(d) ==
    IF ~({"pkcs11_dynamic_path", "pkcs11_module_path"} \subseteq DOMAIN d)
    THEN Raised(Err("KeyError"))
    ELSE Returned(<<
        OptLine("openssl_conf", Word("openssl_def")),
        SectLine("openssl_def"),
        OptLine("engines", Word("engine_section")),
        SectLine("engine_section"),
        OptLine("pkcs11", Word("pkcs11_section")),
        SectLine("pkcs11_section"),
        OptLine("engine_id", Word("pkcs11")),
        OptLine("dynamic_path", d["pkcs11_dynamic_path"]),
        OptLine("MODULE_PATH", d["pkcs11_module_path"]),
        OptLine("init", Word("0")) >>)

-----------------------------------------------------------------------------
(* Sandbox node: DirectoryStructure *)

\* The nodes TmpEnv._prepare_dir_structures defines: attribute |-> name, rel_pth
Nodes ==
    [ca_cert     |-> [name |-> "cacert.pem",      rel_pth |-> << >>],
     ca_key      |-> [name |-> "cakey.pem",       rel_pth |-> <<"private">>],
     certs_dir   |-> [name |-> "",                rel_pth |-> <<"certs">>],
     csr         |-> [name |-> "client.csr",      rel_pth |-> <<"csr">>],
     index       |-> [name |-> "index.txt",       rel_pth |-> << >>],
     index_attr  |-> [name |-> "index.txt.attr",  rel_pth |-> << >>],
     revoke_cert |-> [name |-> "revoke_cert.pem", rel_pth |-> << >>],
     ca_crl      |-> [name |-> "ca.crl",          rel_pth |-> << >>],
     serial      |-> [name |-> "serial",          rel_pth |-> << >>],
     gen_cert    |-> [name |-> "cert.pem",        rel_pth |-> <<"certs">>],
     ssl_conf    |-> [name |-> "openssl.cnf",     rel_pth |-> << >>]]

NodeNames == DOMAIN Nodes

\* DirectoryStructure.path of node n of the sandbox rooted at root
NodePath(root, n) ==
    root \o Nodes[n].rel_pth
         \o (IF Nodes[n].name = "" THEN << >> ELSE <<Nodes[n].name>>)

\* osp.dirname(self.path)
NodeDirname(root, n) == root \o Nodes[n].rel_pth

\* A mutant of _get_paths_to_substitute_dict: database and serial are swapped.
PathsToSubstituteSwapped(root) ==
    [certificate   |-> NodePath(root, "ca_cert"),
     private_key   |-> NodePath(root, "ca_key"),
     new_certs_dir |-> NodePath(root, "certs_dir"),
     database      |-> NodePath(root, "serial"),
     serial        |-> NodePath(root, "index")]

\* TmpEnv._get_paths_to_substitute_dict()
_get_paths_to_substitute_dict(root) ==
    [certificate   |-> NodePath(root, "ca_cert"),
     private_key   |-> NodePath(root, "ca_key"),
     new_certs_dir |-> NodePath(root, "certs_dir"),
     database      |-> NodePath(root, "index"),
     serial        |-> NodePath(root, "serial")]

\* DirectoryStructure._substitute_path(ca_opt_pattern, value, opt_name, tmp_path)
_substitute_path(ca_sect, text, opt_name, tmp_path) ==
    substitute(text, ca_sect, opt_name, OptLine(opt_name, tmp_path))

\* the order in which the loop over paths_mapping.iteritems() is taken
SubstOrder == <<"certificate", "private_key", "new_certs_dir", "database", "serial">>

RECURSIVE SubstituteAll(_, _, _, _)
SubstituteAll(ca_sect, text, mapping, names) ==
    IF names = << >> THEN Returned(text)
    ELSE IF Head(names) \notin DOMAIN mapping
         THEN SubstituteAll(ca_sect, text, mapping, Tail(names))
         ELSE Bind(_substitute_path(ca_sect, text, Head(names), mapping[Head(names)]),
                   LAMBDA t : SubstituteAll(ca_sect, t, mapping, Tail(names)))

\* DirectoryStructure._get_openssl_config_with_substituted_paths of the node
\* whose directory is dirname, with self.opts = opts
_get_openssl_config_with_substituted_paths(ca_sect, text, dirname, opts) ==
    Bind(_substitute_path(ca_sect, text, "dir", dirname),
         LAMBDA t : SubstituteAll(ca_sect, t, opts.paths_to_substitute, SubstOrder))

\* if pkcs11_opts_dict: (None and the empty dict are both false)
Truthy(d) == d.t = "dict" /\ DOMAIN d.v # {}

\* A mutant of _get_adjusted_openssl_config_str: the parse failure is not
\* wrapped.
AdjustedConfigUnwrappedError(value, dirname, opts) ==
    Bind(ConfigString(value), LAMBDA parsed :
    Bind(get_opt_value(parsed, "ca", "default_ca"), LAMBDA default_ca :
    Bind(_get_openssl_config_with_substituted_paths(
             Head(default_ca), parsed, dirname, opts), LAMBDA subst :
    IF ~Truthy(opts.pkcs11_opts_dict) THEN Returned(subst)
    ELSE
    Bind(PKCS11_OPTS_PATTERN(opts.pkcs11_opts_dict.v), LAMBDA pkcs11_opts :
    Bind(insert_above(subst, "ca", pkcs11_opts), LAMBDA inserted :
    remove(inserted, Head(default_ca), "private_key"))))))

\* A mutant of _get_adjusted_openssl_config_str: private_key is left in place.
AdjustedConfigKeepsPrivateKey(value, dirname, opts) ==
    Let(ConfigString(value), LAMBDA parsed :
    IF ~parsed.ok
    THEN Raised([kind |-> "InvalidSSLConfigError", original_exc |-> parsed.err])
    ELSE
    Bind(get_opt_value(parsed.v, "ca", "default_ca"), LAMBDA default_ca :
    Bind(_get_openssl_config_with_substituted_paths(
             Head(default_ca), parsed.v, dirname, opts), LAMBDA subst :
    IF ~Truthy(opts.pkcs11_opts_dict) THEN Returned(subst)
    ELSE
    Bind(PKCS11_OPTS_PATTERN(opts.pkcs11_opts_dict.v), LAMBDA pkcs11_opts :
    insert_above(subst, "ca", pkcs11_opts)))))

\* DirectoryStructure._get_adjusted_openssl_config_str(value)
_get_adjusted_openssl_config_str(value, dirname, opts) ==
    Let(ConfigString(value), LAMBDA parsed :
    IF ~parsed.ok
    THEN Raised([kind |-> "InvalidSSLConfigError", original_exc |-> parsed.err])
    ELSE
    Bind(get_opt_value(parsed.v, "ca", "default_ca"), LAMBDA default_ca :
    Bind(_get_openssl_config_with_substituted_paths(
             Head(default_ca), parsed.v, dirname, opts), LAMBDA subst :
    IF ~Truthy(opts.pkcs11_opts_dict) THEN Returned(subst)
    ELSE
    Bind(PKCS11_OPTS_PATTERN(opts.pkcs11_opts_dict.v), LAMBDA pkcs11_opts :
    Bind(insert_above(subst, "ca", pkcs11_opts), LAMBDA inserted :
    remove(inserted, Head(default_ca), "private_key"))))))

-----------------------------------------------------------------------------
(* CA environment configuration *)

SERVICE_CA_PROFILE_NAME == "service"

SERVER_COMPONENT_ADDITIONAL_OPENSSL_COMMAND_ARGS ==
    <<Word("-policy"), Word("server_component_serviceCA_policy")>>

DEFAULT_INDEX_ATTR_CONTENT == Text("unique_subject = no")

\* Python dicts: a dict is a function on its keys
DictVal(f) == [t |-> "dict", v |-> f]

EmptyDict == [k \in {} |-> NoVal]

\* dict(base, **more): the keys of more override those of base
DictUpdate(base, more) == more @@ base

\* str.split(sep, maxsplit) on a sequence of tokens; maxsplit < 0: no limit
RECURSIVE SplitOn(_, _, _)
SplitOn(s, seps, maxsplit) ==
    LET S == {i \in 1..Len(s) : s[i] \in seps}
    IN  IF S = {} \/ maxsplit = 0 THEN <<s>>
        ELSE LET i == CHOOSE x \in S : \A y \in S : x <= y
             IN  <<SubSeq(s, 1, i - 1)>>
                 \o SplitOn(SubSeq(s, i + 1, Len(s)), seps, maxsplit - 1)

\* str.split(): on runs of whitespace, without empty pieces
SplitWhitespace(s) == SelectSeq(SplitOn(s, {" "}, -1), LAMBDA x : x # << >>)

\* read_file(path) of the key files the model knows
KeyFiles ==
    [p \in {<<"/etc/n6/cakey.pem">>, <<"pkcs11">>} |->
        IF p = <<"pkcs11">> THEN Text("CA-KEY-2") ELSE Text("CA-KEY")]

\* A mutant of get_ca_env_configuration: the key file named by the module
\* path is read as well, so a descriptor comes with key bytes.
GetCaEnvConfigurationKeepsKey(ca, ca_key_path) ==
    LET base == [ssl_conf   |-> ca.ssl_config,
                 index_attr |-> DEFAULT_INDEX_ATTR_CONTENT,
                 ca_cert    |-> ca.certificate]
    IN
    IF IsPrefix(<<"pkcs11", ":">>, ca_key_path)
    THEN LET parts == SplitOn(ca_key_path, {":"}, 3)
         IN  IF Len(parts) # 4 THEN Raised(Err("ValueError"))
             ELSE Returned(
                 [ca |-> ca,
                  tmp_env_init_kwargs_base |-> DictUpdate(base,
                      [ca_key |-> Text("CA-KEY"),
                       pkcs11_opts_dict |-> DictVal(
                          [pkcs11_dynamic_path |-> parts[2],
                           pkcs11_module_path  |-> parts[3],
                           pkcs11_additional_openssl_cmd_arg_list |->
                               SplitWhitespace(parts[4])])])])
    ELSE IF ca_key_path \notin DOMAIN KeyFiles THEN Raised(Err("IOError"))
         ELSE Returned(
             [ca |-> ca,
              tmp_env_init_kwargs_base |->
                  DictUpdate(base, [ca_key |-> KeyFiles[ca_key_path]])])

\* get_ca_env_configuration(ca, ca_key_path); ca_key_path is a sequence of
\* tokens, ":" and " " being tokens of their own
get_ca_env_configuration(ca, ca_key_path) ==
    LET base == [ssl_conf   |-> ca.ssl_config,
                 index_attr |-> DEFAULT_INDEX_ATTR_CONTENT,
                 ca_cert    |-> ca.certificate]
    IN
    IF IsPrefix(<<"pkcs11", ":">>, ca_key_path)
    THEN LET parts == SplitOn(ca_key_path, {":"}, 3)
         IN  IF Len(parts) # 4 THEN Raised(Err("ValueError"))
             ELSE Returned(
                 [ca |-> ca,
                  tmp_env_init_kwargs_base |-> DictUpdate(base,
                      [pkcs11_opts_dict |-> DictVal(
                          [pkcs11_dynamic_path |-> parts[2],
                           pkcs11_module_path  |-> parts[3],
                           pkcs11_additional_openssl_cmd_arg_list |->
                               SplitWhitespace(parts[4])])])])
    ELSE IF ca_key_path \notin DOMAIN KeyFiles THEN Raised(Err("IOError"))
         ELSE Returned(
             [ca |-> ca,
              tmp_env_init_kwargs_base |->
                  DictUpdate(base, [ca_key |-> KeyFiles[ca_key_path]])])

-----------------------------------------------------------------------------
(* Bounds and the inputs drawn within them *)

MaxSerialLen == 3

MaxCerts == 2

MaxCalls == 2

CERTIFICATE_SERIAL_NUMBER_HEXDIGIT_NUM == 20

Str(s) == [t |-> "str", v |-> s]

SerialAlphabet == {"0", "a", "B", "g"}

SeqsUpTo(S, n) == UNION {[1..k -> S] : k \in 0..n}

SerialInputs ==
    {[t |-> ty, v |-> s] : ty \in {"str", "unicode"}, s \in SeqsUpTo(SerialAlphabet, MaxSerialLen)}
    \cup {Str(<<"A", "B", "C">>), [t |-> "int", v |-> << >>]}

\* the original, persisted locations a CA's configuration names
CaOpts == <<"dir", "certificate", "private_key", "new_certs_dir", "database", "serial">>

OrigPath(opt) == <<"/var/lib/n6-ca", opt>>

CaOptLines(present) ==
    LET all == [i \in 1..Len(CaOpts) |-> OptLine(CaOpts[i], OrigPath(CaOpts[i]))]
    IN  SelectSeq(all, LAMBDA l : l.k \in present)

\* layouts: the [ca] section pointing at [CA_default] below it or above it,
\* or at itself
MakeConf(layout, present) ==
    CASE layout = "ca_first" ->
            <<SectLine("ca"), OptLine("default_ca", Word("CA_default")),
              SectLine("CA_default")>> \o CaOptLines(present)
              \o <<SectLine("policy_match"), OptLine("commonName", Word("supplied"))>>
      [] layout = "ca_last" ->
            <<SectLine("CA_default")>> \o CaOptLines(present)
              \o <<SectLine("policy_match"), OptLine("commonName", Word("supplied")),
                   SectLine("ca"), OptLine("default_ca", Word("CA_default"))>>
      [] layout = "ca_self" ->
            <<SectLine("req"), OptLine("prompt", Word("no")),
              SectLine("ca"), OptLine("default_ca", Word("ca"))>>
              \o CaOptLines(present)
      [] OTHER ->      \* no default_ca pointer at all
            <<SectLine("ca"), SectLine("CA_default")>> \o CaOptLines(present)

AllCaOpts == {CaOpts[i] : i \in 1..Len(CaOpts)}

GoodConf == MakeConf("ca_first", AllCaOpts)

MalformedConf == <<JunkLine>> \o GoodConf

FullPkcs11Dict ==
    DictVal([pkcs11_dynamic_path |-> <<"/usr/lib/engines/engine_pkcs11.so">>,
             pkcs11_module_path  |-> <<"/usr/lib/opensc-pkcs11.so">>,
             pkcs11_additional_openssl_cmd_arg_list |->
                 <<<<"-keyfile">>, <<"foo", ":", "bar">>, <<"-keyform">>, <<"spam">>>>])

Pkcs11Locator ==
    <<"pkcs11", ":", "/usr/lib/engines/engine_pkcs11.so", ":",
      "/usr/lib/opensc-pkcs11.so", ":",
      "-keyfile", " ", "foo", ":", "bar", " ", " ", "-keyform", " ", "spam">>

KeyLocators == {<<"/etc/n6/cakey.pem">>, Pkcs11Locator}

T0 == DateTime(2013, 6, 6, 12, 13, 57, 0)

Nows == {T0, DateTime(2014, 1, 1, 0, 0, 0, 0)}

CertRecord(serial_hex, subject, expires_on, revoked_on) ==
    [serial_hex |-> serial_hex, subject |-> subject, expires_on |-> expires_on,
     revoked_on |-> revoked_on, certificate |-> Text("CERT-PEM")]

SubjectA == <<"/", "C", "N", "=", "a">>

SubjectB == <<"/", "O", "=", "b", " ", "c">>

CertPool ==
    { CertRecord(Str(<<"0", "a">>), SubjectA, DateTime(2013, 12, 31, 23, 59, 59, 0), NoVal),
      CertRecord(Str(<<"a", "b", "c">>), SubjectB, DateTime(2013, 6, 6, 12, 13, 56, 999999), NoVal),
      CertRecord(Str(<<"1">>), SubjectA, T0, NoVal),
      CertRecord(Str(<<"f", "f">>), SubjectB, DateTime(2012, 2, 29, 0, 0, 0, 0),
                 AwareDateTime(2013, 1, 1, 1, 30, 0, 5, 120)),
      CertRecord(Str(<<"2", "0">>), SubjectA, DateTime(2020, 1, 1, 0, 0, 0, 0),
                 DateTime(2013, 6, 6, 12, 13, 57, 0)),
      CertRecord(Str(<<"3">>), SubjectB, NoVal, NoVal),
      CertRecord(Str(<<"4", "4">>), SubjectA, NoVal, DateTime(2013, 3, 4, 5, 6, 7, 8)),
      CertRecord(Str(<<"5", "5">>), SubjectA, Text("2014-08-08 12:01:23"), NoVal),
      CertRecord(Str(<<"6", "6">>), SubjectA, NoVal, Text("2014-08-08 12:01:23")),
      CertRecord(Str(<<"g", "g">>), SubjectA, NoVal, NoVal) }

-----------------------------------------------------------------------------
(* The operations: one caller per element of DOMAIN proc *)

TmpNames == {"tmpA", "tmpB"}

ToolOutputs == {"openssl: error", "openssl: unable to load CA private key"}

PemOutputs == {"PEM-1"}

NoDir == [exists |-> FALSE, subdirs |-> {}, files |-> [n \in NodeNames |-> NoVal]]

IdleProc ==
    [pc          |-> "idle",
     op          |-> "none",
     n6login     |-> NoVal,           \* server_component_n6login
     serial_number |-> NoVal,         \* the serial_number argument
     pkcs11_opts_dict |-> NoVal,      \* TmpEnv.pkcs11_opts_dict
     init_values |-> EmptyDict,       \* the **init_values of TmpEnv.__init__
     addl        |-> << >>,           \* additional_openssl_command_args
     dir         |-> "",              \* TmpEnv.tmp_path_templ
     todo        |-> << >>,           \* the init values not yet written
     value       |-> [n \in NodeNames |-> NoVal],   \* DirectoryStructure._value
     writes      |-> [n \in NodeNames |-> 0],       \* files written by _create_file
     steps       |-> << >>,           \* the tool commands still to run
     cmds        |-> << >>,           \* the tool invocations made so far
     err         |-> NoErr,           \* the exception in flight or raised
     result      |-> NoVal,           \* the value read back / returned
     cleanups    |-> 0,               \* calls of shutil.rmtree
     calls       |-> 0]

\* sorted(init_values.iteritems()): the attribute names in string order
SortedNames == <<"ca_cert", "ca_key", "csr", "index", "index_attr",
                 "revoke_cert", "serial", "ssl_conf">>

Root(d) == <<d>>

\* x509_helpers.normalize_hex_serial_number(serial_number, min_digit_num)
RECURSIVE LStripZeros(_)
LStripZeros(s) == IF s # << >> /\ Head(s) = "0" THEN LStripZeros(Tail(s)) ELSE s

RJustZeros(s, n) == [i \in 1..(IF Len(s) < n THEN n - Len(s) ELSE 0) |-> "0"] \o s

normalize_hex_serial_number(sn, min_digit_num) ==
    IF sn.t \notin {"str", "unicode"} THEN Raised(Err("TypeError"))
    ELSE LET n == RJustZeros(LStripZeros(StrLower(sn.v)), min_digit_num)
         IN  IF is_cert_serial_number_valid(n) THEN Returned([t |-> sn.t, v |-> n])
             ELSE Raised(Err("ValueError"))

\* with TmpEnv(**tmp_env_init_kwargs): the call reaches TmpEnv.__init__
EnterTmpEnv(p, op, kwargs, addl, n6login, serial_number, steps) ==
    proc' = [proc EXCEPT ![p] =
        [IdleProc EXCEPT
            !.pc = "mkdtemp", !.op = op, !.n6login = n6login, !.addl = addl,
            !.serial_number = serial_number,
            !.pkcs11_opts_dict = IF "pkcs11_opts_dict" \in DOMAIN kwargs
                                 THEN kwargs["pkcs11_opts_dict"] ELSE NoVal,
            !.init_values = [k \in DOMAIN kwargs \ {"pkcs11_opts_dict"} |-> kwargs[k]],
            !.steps = steps, !.calls = proc[p].calls]]

\* the operation raises before any TmpEnv is made
RaiseEarly(p, op, n6login, serial_number, e) ==
    proc' = [proc EXCEPT ![p] =
        [IdleProc EXCEPT !.pc = "raised", !.op = op, !.n6login = n6login,
                         !.serial_number = serial_number, !.err = e, !.calls = proc[p].calls]]

\* the caller is between operations and may start one
CanCall(p) == proc[p].pc = "idle" /\ proc[p].calls < MaxCalls

\* A mutant of generate_certificate_pem: the profile is not asserted.
GenerateCertificatePemNoAssert(p, csr_pem, serial_number, n6login) ==
    /\ CanCall(p)
    /\ \E ser \in {Bind(normalize_hex_serial_number(
                               serial_number, CERTIFICATE_SERIAL_NUMBER_HEXDIGIT_NUM),
                           LAMBDA n : _format_openssl_serial_number(n))} :
           IF ~ser.ok THEN RaiseEarly(p, "sign", n6login, serial_number, ser.err)
           ELSE EnterTmpEnv(p, "sign",
                    DictUpdate(env.tmp_env_init_kwargs_base,
                               [csr |-> csr_pem, serial |-> ser.v, index |-> Str(<< >>)]),
                    IF n6login.t = "none" THEN << >>
                    ELSE SERVER_COMPONENT_ADDITIONAL_OPENSSL_COMMAND_ARGS,
                    n6login, serial_number, <<"sign">>)
    /\ UNCHANGED <<env, fs, pure>>

\* A mutant of generate_certificate_pem: the per-operation values are put
\* into the bundle's base dict itself (base.update) instead of into a copy.
GenerateCertificatePemUpdatesBase(p, csr_pem, serial_number, n6login) ==
    /\ CanCall(p)
    /\ \E ser \in {Bind(normalize_hex_serial_number(
                               serial_number, CERTIFICATE_SERIAL_NUMBER_HEXDIGIT_NUM),
                           LAMBDA n : _format_openssl_serial_number(n))} :
           IF ~ser.ok
           THEN /\ RaiseEarly(p, "sign", n6login, serial_number, ser.err)
                /\ UNCHANGED env
           ELSE IF n6login.t # "none" /\ env.ca.profile # SERVICE_CA_PROFILE_NAME
           THEN /\ RaiseEarly(p, "sign", n6login, serial_number, Err("AssertionError"))
                /\ UNCHANGED env
           ELSE \E kwargs \in {DictUpdate(env.tmp_env_init_kwargs_base,
                                   [csr |-> csr_pem, serial |-> ser.v, index |-> Str(<< >>)])} :
                /\ env' = [env EXCEPT !.tmp_env_init_kwargs_base = kwargs]
                /\ EnterTmpEnv(p, "sign", kwargs,
                       IF n6login.t = "none" THEN << >>
                       ELSE SERVER_COMPONENT_ADDITIONAL_OPENSSL_COMMAND_ARGS,
                       n6login, serial_number, <<"sign">>)
    /\ UNCHANGED <<fs, pure>>

\* generate_certificate_pem, up to the with statement
generate_certificate_pem(p, csr_pem, serial_number, n6login) ==
    /\ CanCall(p)
    /\ \E ser \in {Bind(normalize_hex_serial_number(
                               serial_number, CERTIFICATE_SERIAL_NUMBER_HEXDIGIT_NUM),
                           LAMBDA n : _format_openssl_serial_number(n))} :
           IF ~ser.ok THEN RaiseEarly(p, "sign", n6login, serial_number, ser.err)
           ELSE IF n6login.t # "none" /\ env.ca.profile # SERVICE_CA_PROFILE_NAME
           THEN RaiseEarly(p, "sign", n6login, serial_number, Err("AssertionError"))
           ELSE EnterTmpEnv(p, "sign",
                    DictUpdate(env.tmp_env_init_kwargs_base,
                               [csr |-> csr_pem, serial |-> ser.v, index |-> Str(<< >>)]),
                    IF n6login.t = "none" THEN << >>
                    ELSE SERVER_COMPONENT_ADDITIONAL_OPENSSL_COMMAND_ARGS,
                    n6login, serial_number, <<"sign">>)
    /\ UNCHANGED <<env, fs, pure>>

\* A mutant of generate_crl_pem: the sandbox is made first and the index is
\* rendered lazily, so a rendering error surfaces at the end of the with
\* block.
GenerateCrlPemRendersLate(p, now) ==
    /\ CanCall(p)
    /\ \E index \in {_make_openssl_index_file_content(env.ca.certs, now)} :
           IF ~index.ok
           THEN proc' = [proc EXCEPT ![p] =
                    [IdleProc EXCEPT
                        !.pc = "mkdtemp", !.op = "crl",
                        !.pkcs11_opts_dict =
                            IF "pkcs11_opts_dict" \in DOMAIN env.tmp_env_init_kwargs_base
                            THEN env.tmp_env_init_kwargs_base["pkcs11_opts_dict"] ELSE NoVal,
                        !.init_values =
                            [k \in (DOMAIN env.tmp_env_init_kwargs_base \ {"pkcs11_opts_dict"})
                                    \cup {"index", "serial"} |->
                                IF k \in {"index", "serial"} THEN Str(<< >>)
                                ELSE env.tmp_env_init_kwargs_base[k]],
                        !.steps = <<"gencrl">>, !.err = index.err,
                        !.calls = proc[p].calls]]
           ELSE EnterTmpEnv(p, "crl",
                    DictUpdate(env.tmp_env_init_kwargs_base,
                               [index |-> Str(index.v), serial |-> Str(<< >>)]),
                    << >>, NoVal, NoVal, <<"gencrl">>)
    /\ UNCHANGED <<env, fs, pure>>

\* generate_crl_pem, up to the with statement
generate_crl_pem(p, now) ==
    /\ CanCall(p)
    /\ \E index \in {_make_openssl_index_file_content(env.ca.certs, now)} :
           IF ~index.ok THEN RaiseEarly(p, "crl", NoVal, NoVal, index.err)
           ELSE EnterTmpEnv(p, "crl",
                    DictUpdate(env.tmp_env_init_kwargs_base,
                               [index |-> Str(index.v), serial |-> Str(<< >>)]),
                    << >>, NoVal, NoVal, <<"gencrl">>)
    /\ UNCHANGED <<env, fs, pure>>

\* A mutant of revoke_certificate_and_generate_crl_pem: the CRL is generated
\* before the certificate is revoked.
RevokeGeneratesCrlFirst(p, cert_data, now) ==
    /\ CanCall(p)
    /\ \E index \in {_make_openssl_index_file_content(env.ca.certs, now)},
          ser \in {_format_openssl_serial_number(cert_data.serial_hex)} :
           IF ~index.ok THEN RaiseEarly(p, "revoke", NoVal, cert_data.serial_hex, index.err)
           ELSE IF ~ser.ok THEN RaiseEarly(p, "revoke", NoVal, cert_data.serial_hex, ser.err)
           ELSE EnterTmpEnv(p, "revoke",
                    DictUpdate(env.tmp_env_init_kwargs_base,
                               [index |-> Str(index.v), serial |-> ser.v,
                                revoke_cert |-> cert_data.certificate]),
                    << >>, NoVal, cert_data.serial_hex, <<"gencrl", "revoke">>)
    /\ UNCHANGED <<env, fs, pure>>

\* revoke_certificate_and_generate_crl_pem, up to the with statement
revoke_certificate_and_generate_crl_pem(p, cert_data, now) ==
    /\ CanCall(p)
    /\ \E index \in {_make_openssl_index_file_content(env.ca.certs, now)},
          ser \in {_format_openssl_serial_number(cert_data.serial_hex)} :
           IF ~index.ok THEN RaiseEarly(p, "revoke", NoVal, cert_data.serial_hex, index.err)
           ELSE IF ~ser.ok THEN RaiseEarly(p, "revoke", NoVal, cert_data.serial_hex, ser.err)
           ELSE EnterTmpEnv(p, "revoke",
                    DictUpdate(env.tmp_env_init_kwargs_base,
                               [index |-> Str(index.v), serial |-> ser.v,
                                revoke_cert |-> cert_data.certificate]),
                    << >>, NoVal, cert_data.serial_hex, <<"revoke", "gencrl">>)
    /\ UNCHANGED <<env, fs, pure>>

-----------------------------------------------------------------------------
(* Sandbox: TmpEnv *)

SetProc(p, r) == proc' = [proc EXCEPT ![p] = r]

\* A mutant of Mkdtemp: the directory name is not checked to be new.
MkdtempReusesName(p) ==
    /\ proc[p].pc = "mkdtemp"
    /\ \E d \in TmpNames :
          /\ fs' = [fs EXCEPT ![d] = [NoDir EXCEPT !.exists = TRUE]]
          /\ SetProc(p, [proc[p] EXCEPT !.pc = "prepare", !.dir = d])
    /\ UNCHANGED <<env, pure>>

\* tempfile.mkdtemp(): a directory that did not exist (TmpEnv.__init__, first
\* two statements)
Mkdtemp(p) ==
    /\ proc[p].pc = "mkdtemp"
    /\ \E d \in TmpNames :
          /\ ~fs[d].exists
          /\ fs' = [fs EXCEPT ![d] = [NoDir EXCEPT !.exists = TRUE]]
          /\ SetProc(p, [proc[p] EXCEPT !.pc = "prepare", !.dir = d])
    /\ UNCHANGED <<env, pure>>

\* the directories DirectoryStructure._makedir_if_nonexistent makes
NodeSubdirs == {Nodes[n].rel_pth : n \in NodeNames} \ {<< >>}

\* TmpEnv._prepare_dir_structures(path): every node is defined, its directory
\* made; os.makedirs may fail
_prepare_dir_structures(p) ==
    /\ proc[p].pc = "prepare"
    /\ \/ /\ fs' = [fs EXCEPT ![proc[p].dir].subdirs = NodeSubdirs]
          /\ LET todo == SelectSeq(SortedNames,
                                   LAMBDA n : n \in DOMAIN proc[p].init_values)
             IN  SetProc(p, [proc[p] EXCEPT
                     !.todo = todo,
                     !.pc = IF todo = << >> THEN "body" ELSE "write"])
       \/ /\ \E made \in SUBSET NodeSubdirs :
                /\ made # NodeSubdirs
                /\ fs' = [fs EXCEPT ![proc[p].dir].subdirs = made]
          /\ SetProc(p, [proc[p] EXCEPT !.pc = "ctor_except", !.err = Err("OSError")])
    /\ UNCHANGED <<env, pure>>

\* self.opts of the ssl_conf node
SslConfOpts(p) ==
    [pkcs11_opts_dict    |-> proc[p].pkcs11_opts_dict,
     paths_to_substitute |-> _get_paths_to_substitute_dict(Root(proc[p].dir))]

\* the value setter of DirectoryStructure, up to self._value = value
AdjustedValue(p, n, value) ==
    IF Nodes[n].name = "openssl.cnf"
    THEN Let(SslConfOpts(p), LAMBDA opts :
         Let(NodeDirname(Root(proc[p].dir), n), LAMBDA dirname :
         Bind(_get_adjusted_openssl_config_str(value.v, dirname, opts),
              LAMBDA text : Returned(Conf(text)))))
    ELSE Returned(value)

\* A mutant of WriteNode: a failure of the adjustment or of the write is
\* swallowed and the loop goes on to the next init value.
WriteNodeSwallowsFailure(p) ==
    /\ proc[p].pc = "write"
    /\ \E n \in {Head(proc[p].todo)}, rest \in {Tail(proc[p].todo)} :
       \E adj \in {AdjustedValue(p, n, proc[p].init_values[n])} :
           IF ~adj.ok
           THEN /\ SetProc(p, [proc[p] EXCEPT
                       !.todo = rest,
                       !.pc = IF rest = << >> THEN "body" ELSE "write"])
                /\ UNCHANGED fs
           ELSE \/ /\ fs' = [fs EXCEPT ![proc[p].dir].files[n] = adj.v]
                   /\ SetProc(p, [proc[p] EXCEPT
                          !.value[n] = adj.v, !.writes[n] = @ + 1, !.todo = rest,
                          !.pc = IF rest = << >> THEN "body" ELSE "write"])
                \/ /\ UNCHANGED fs
                   /\ SetProc(p, [proc[p] EXCEPT
                          !.value[n] = adj.v, !.todo = rest,
                          !.pc = IF rest = << >> THEN "body" ELSE "write"])
    /\ UNCHANGED <<env, pure>>

\* A mutant of WriteNode: every init value is assigned, and so written, twice.
WriteNodeTwice(p) ==
    /\ proc[p].pc = "write"
    /\ \E n \in {Head(proc[p].todo)} :
       \E rest \in {IF proc[p].writes[n] = 0 THEN proc[p].todo ELSE Tail(proc[p].todo)} :
       \E adj \in {AdjustedValue(p, n, proc[p].init_values[n])} :
           IF ~adj.ok
           THEN /\ SetProc(p, [proc[p] EXCEPT !.pc = "ctor_except", !.err = adj.err])
                /\ UNCHANGED fs
           ELSE \/ /\ fs' = [fs EXCEPT ![proc[p].dir].files[n] = adj.v]
                   /\ SetProc(p, [proc[p] EXCEPT
                          !.value[n] = adj.v, !.writes[n] = @ + 1, !.todo = rest,
                          !.pc = IF rest = << >> THEN "body" ELSE "write"])
                \/ /\ UNCHANGED fs
                   /\ SetProc(p, [proc[p] EXCEPT
                          !.value[n] = adj.v,
                          !.pc = "ctor_except", !.err = Err("IOError")])
    /\ UNCHANGED <<env, pure>>

\* one pass of the loop of TmpEnv.__init__: dir_struct.value = value, which
\* adjusts the configuration and writes the file (_create_file); the write
\* may fail
WriteNode(p) ==
    /\ proc[p].pc = "write"
    /\ \E n \in {Head(proc[p].todo)}, rest \in {Tail(proc[p].todo)} :
       \E adj \in {AdjustedValue(p, n, proc[p].init_values[n])} :
           IF ~adj.ok
           THEN /\ SetProc(p, [proc[p] EXCEPT !.pc = "ctor_except", !.err = adj.err])
                /\ UNCHANGED fs
           ELSE \/ /\ fs' = [fs EXCEPT ![proc[p].dir].files[n] = adj.v]
                   /\ SetProc(p, [proc[p] EXCEPT
                          !.value[n] = adj.v, !.writes[n] = @ + 1, !.todo = rest,
                          !.pc = IF rest = << >> THEN "body" ELSE "write"])
                \/ /\ UNCHANGED fs
                   /\ SetProc(p, [proc[p] EXCEPT
                          !.value[n] = adj.v,
                          !.pc = "ctor_except", !.err = Err("IOError")])
    /\ UNCHANGED <<env, pure>>

\* TmpEnv._cleanup(): shutil.rmtree(self.tmp_path_templ)
Rmtree(d) == fs' = [fs EXCEPT ![d] = NoDir]

\* A mutant of CtorExcept: the except clause re-raises without cleaning up.
CtorExceptNoCleanup(p) ==
    /\ proc[p].pc = "ctor_except"
    /\ SetProc(p, [proc[p] EXCEPT !.pc = "raised"])
    /\ UNCHANGED <<env, fs, pure>>

\* A mutant of CtorExcept: after the cleanup of the except clause the
\* exception leaves through __exit__ as well.
CtorExceptThenExit(p) ==
    /\ proc[p].pc = "ctor_except"
    /\ Rmtree(proc[p].dir)
    /\ SetProc(p, [proc[p] EXCEPT !.pc = "exit", !.cleanups = @ + 1])
    /\ UNCHANGED <<env, pure>>

\* the except clause of TmpEnv.__init__: self._cleanup(); raise
CtorExcept(p) ==
    /\ proc[p].pc = "ctor_except"
    /\ Rmtree(proc[p].dir)
    /\ SetProc(p, [proc[p] EXCEPT !.pc = "raised", !.cleanups = @ + 1])
    /\ UNCHANGED <<env, pure>>

-----------------------------------------------------------------------------
(* Toolchain invoker *)

\* A mutant of _get_pkcs11_openssl_command_args: -name and the section come
\* before the descriptor's extra tokens.
Pkcs11ArgsNameFirst(p) ==
    IF proc[p].pkcs11_opts_dict.t = "none" THEN Returned(<< >>)
    ELSE IF proc[p].value["ssl_conf"].t # "conf" THEN Raised(Err("AttributeError"))
    ELSE Bind(get_opt_value(proc[p].value["ssl_conf"].v, "ca", "default_ca"),
              LAMBDA ca_sect_name :
              IF "pkcs11_additional_openssl_cmd_arg_list"
                     \notin DOMAIN proc[p].pkcs11_opts_dict.v
              THEN Raised(Err("KeyError"))
              ELSE Returned(<<Word("-engine"), Word("pkcs11")>>
                            \o <<Word("-name"), ca_sect_name>>
                            \o proc[p].pkcs11_opts_dict.v["pkcs11_additional_openssl_cmd_arg_list"]))

\* TmpEnv._get_pkcs11_openssl_command_args()
_get_pkcs11_openssl_command_args(p) ==
    IF proc[p].pkcs11_opts_dict.t = "none" THEN Returned(<< >>)
    ELSE IF proc[p].value["ssl_conf"].t # "conf" THEN Raised(Err("AttributeError"))
    ELSE Bind(get_opt_value(proc[p].value["ssl_conf"].v, "ca", "default_ca"),
              LAMBDA ca_sect_name :
              IF "pkcs11_additional_openssl_cmd_arg_list"
                     \notin DOMAIN proc[p].pkcs11_opts_dict.v
              THEN Raised(Err("KeyError"))
              ELSE Returned(<<Word("-engine"), Word("pkcs11")>>
                            \o proc[p].pkcs11_opts_dict.v["pkcs11_additional_openssl_cmd_arg_list"]
                            \o <<Word("-name"), ca_sect_name>>))

Path(p, n) == NodePath(Root(proc[p].dir), n)

\* the argument list execute_cert_generation, execute_cert_revocation and
\* execute_crl_generation hand to _execute_command
CommandArgs(p, step) ==
    LET head ==
          CASE step = "sign" ->
                 <<Word("openssl"), Word("ca"), Word("-config"), Path(p, "ssl_conf"),
                   Word("-notext"), Word("-in"), Path(p, "csr"),
                   Word("-out"), Path(p, "gen_cert"), Word("-batch")>>
            [] step = "revoke" ->
                 <<Word("openssl"), Word("ca"), Word("-config"), Path(p, "ssl_conf"),
                   Word("-revoke"), Path(p, "revoke_cert"), Word("-batch")>>
            [] OTHER ->
                 <<Word("openssl"), Word("ca"), Word("-config"), Path(p, "ssl_conf"),
                   Word("-gencrl"), Word("-out"), Path(p, "ca_crl"), Word("-batch")>>
    IN  Bind(_get_pkcs11_openssl_command_args(p), LAMBDA pk :
             Returned(head \o pk \o (IF step = "sign" THEN proc[p].addl ELSE << >>)))

\* the node the tool writes and read_file reads back
OutputNode(step) == IF step = "sign" THEN "gen_cert" ELSE "ca_crl"

\* A mutant of _execute_command: the exit status of the tool is ignored.
ExecuteCommandIgnoresStatus(p) ==
    /\ proc[p].pc = "body"
    /\ proc[p].steps # << >>
    /\ \E step \in {Head(proc[p].steps)} :
       \E args \in {CommandArgs(p, step)} :
           IF ~args.ok
           THEN /\ SetProc(p, [proc[p] EXCEPT !.pc = "exit", !.err = args.err])
                /\ UNCHANGED fs
           ELSE \E rc \in {0, 1}, out \in ToolOutputs, pem \in PemOutputs, wrote \in BOOLEAN :
                  LET run == [cmd |-> args.v, rc |-> rc, output |-> out, step |-> step,
                              dir |-> proc[p].dir]
                  IN  /\ fs' = IF wrote /\ step # "revoke"
                               THEN [fs EXCEPT ![proc[p].dir].files[OutputNode(step)] = Text(pem)]
                               ELSE fs
                      /\ SetProc(p, [proc[p] EXCEPT
                             !.cmds = Append(@, run),
                             !.steps = IF step = "revoke" THEN Tail(@) ELSE @,
                             !.pc = IF step = "revoke" THEN "body" ELSE "harvest"])
    /\ UNCHANGED <<env, pure>>

\* TmpEnv._execute_command(cmd_args) for the next command of the operation:
\* the tool runs to its end, exits with rc and has printed out; on exit 0 it
\* has, or has not, left its output file
ExecuteCommand(p) ==
    /\ proc[p].pc = "body"
    /\ proc[p].steps # << >>
    /\ \E step \in {Head(proc[p].steps)} :
       \E args \in {CommandArgs(p, step)} :
           IF ~args.ok
           THEN /\ SetProc(p, [proc[p] EXCEPT !.pc = "exit", !.err = args.err])
                /\ UNCHANGED fs
           ELSE \E out \in ToolOutputs :
                  \/ /\ SetProc(p, [proc[p] EXCEPT
                            !.cmds = Append(@, [cmd |-> args.v, rc |-> 1, output |-> out,
                                                step |-> step, dir |-> proc[p].dir]),
                            !.pc = "exit",
                            !.err = [kind |-> "RuntimeError", output |-> out]])
                     /\ UNCHANGED fs
                  \/ \E pem \in PemOutputs, wrote \in BOOLEAN :
                     /\ fs' = IF wrote /\ step # "revoke"
                              THEN [fs EXCEPT ![proc[p].dir].files[OutputNode(step)] = Text(pem)]
                              ELSE fs
                     /\ SetProc(p, [proc[p] EXCEPT
                            !.cmds = Append(@, [cmd |-> args.v, rc |-> 0, output |-> out,
                                                step |-> step, dir |-> proc[p].dir]),
                            !.steps = IF step = "revoke" THEN Tail(@) ELSE @,
                            !.pc = IF step = "revoke" THEN "body" ELSE "harvest"])
    /\ UNCHANGED <<env, pure>>

\* return read_file(self.gen_cert.path) / read_file(self.ca_crl.path)
Harvest(p) ==
    /\ proc[p].pc = "harvest"
    /\ LET content == fs[proc[p].dir].files[OutputNode(Head(proc[p].steps))]
       IN  IF content.t = "none"
           THEN SetProc(p, [proc[p] EXCEPT !.pc = "exit", !.err = Err("IOError")])
           ELSE SetProc(p, [proc[p] EXCEPT !.pc = "exit", !.steps = Tail(@),
                                           !.result = content])
    /\ UNCHANGED <<env, fs, pure>>

\* A mutant of Exit: the directory is removed only when the body succeeded.
ExitCleansOnSuccessOnly(p) ==
    /\ proc[p].pc = "exit"
    /\ IF proc[p].err.kind = "none"
       THEN /\ Rmtree(proc[p].dir)
            /\ SetProc(p, [proc[p] EXCEPT !.pc = "returned", !.cleanups = @ + 1])
       ELSE /\ UNCHANGED fs
            /\ SetProc(p, [proc[p] EXCEPT !.pc = "raised"])
    /\ UNCHANGED <<env, pure>>

\* TmpEnv.__exit__(*exc_info): self._cleanup(); its None result lets the
\* exception in flight through, and the operation returns or raises
Exit(p) ==
    /\ proc[p].pc = "exit"
    /\ Rmtree(proc[p].dir)
    /\ SetProc(p, [proc[p] EXCEPT
           !.pc = IF proc[p].err.kind = "none" THEN "returned" ELSE "raised",
           !.cleanups = @ + 1])
    /\ UNCHANGED <<env, pure>>

\* the caller, done with one operation, is ready for its next
NextCall(p) ==
    /\ proc[p].pc \in {"returned", "raised"}
    /\ SetProc(p, [IdleProc EXCEPT !.calls = proc[p].calls + 1])
    /\ UNCHANGED <<env, fs, pure>>

-----------------------------------------------------------------------------
(* The specification of the three operations *)

NoPure == [fn |-> "none"]

MainCertLists ==
    { << >>,
      <<CertRecord(Str(<<"0", "a">>), SubjectA, DateTime(2013, 12, 31, 23, 59, 59, 0), NoVal),
        CertRecord(Str(<<"2", "0">>), SubjectB, DateTime(2020, 1, 1, 0, 0, 0, 0), T0)>>,
      <<CertRecord(Str(<<"5", "5">>), SubjectA, NoVal, Text("2014-08-08 12:01:23"))>>,
      <<CertRecord(Str(<<"g", "g">>), SubjectA, NoVal, NoVal)>> }

MainConfs == {GoodConf, MalformedConf, MakeConf("none", AllCaOpts)}

MainCAs ==
    {[profile |-> pr, ssl_config |-> Conf(c), certificate |-> Text("CA-CERT"),
      certs |-> cs] :
        pr \in {SERVICE_CA_PROFILE_NAME, "client"}, c \in MainConfs, cs \in MainCertLists}

MainEnvs ==
    LET built == {get_ca_env_configuration(ca, loc) : ca \in MainCAs, loc \in KeyLocators}
    IN  {r.v : r \in {b \in built : b.ok}}

MainSerials == {Str(<<"1", "A">>), Str(<<"0", "0", "b", "c", "d">>), Str(<<"x">>)}

MainRevoked ==
    {CertRecord(Str(<<"a", "b", "c">>), SubjectA, NoVal, NoVal),
     CertRecord(Str(<<"g">>), SubjectA, NoVal, NoVal)}

Callers == {1}

Init ==
    /\ env \in MainEnvs
    /\ proc = [p \in Callers |-> IdleProc]
    /\ fs = [d \in TmpNames |-> NoDir]
    /\ pure = NoPure

Next ==
    \/ \E p \in DOMAIN proc, sn \in MainSerials, login \in {NoVal, Text("n6login")} :
          generate_certificate_pem(p, Text("CSR-PEM"), sn, login)
    \/ \E p \in DOMAIN proc, now \in Nows : generate_crl_pem(p, now)
    \/ \E p \in DOMAIN proc, c \in MainRevoked, now \in Nows :
          revoke_certificate_and_generate_crl_pem(p, c, now)
    \/ \E p \in DOMAIN proc : Mkdtemp(p)
    \/ \E p \in DOMAIN proc : _prepare_dir_structures(p)
    \/ \E p \in DOMAIN proc : WriteNode(p)
    \/ \E p \in DOMAIN proc : CtorExcept(p)
    \/ \E p \in DOMAIN proc : ExecuteCommand(p)
    \/ \E p \in DOMAIN proc : Harvest(p)
    \/ \E p \in DOMAIN proc : Exit(p)
    \/ \E p \in DOMAIN proc : NextCall(p)

Spec == Init /\ [][Next]_vars

-----------------------------------------------------------------------------
(* The specification of sandbox construction over many configurations: one
   operation (generate_crl_pem of a CA without certificates) is taken up to
   the end of TmpEnv.__init__ *)

ConfLayouts == {"ca_first", "ca_last", "ca_self", "none"}

\* every option present, or exactly one missing
ConfPresents == {AllCaOpts} \cup {AllCaOpts \ {o} : o \in AllCaOpts}

\* malformed variants: a line that does not parse, first or last
ConfTexts ==
    LET good == {MakeConf(l, pr) : l \in ConfLayouts, pr \in ConfPresents}
    IN  good \cup {<<JunkLine>> \o MakeConf(l, AllCaOpts) : l \in ConfLayouts}
             \cup {MakeConf(l, AllCaOpts) \o <<JunkLine>> : l \in ConfLayouts}

ConfEnvs ==
    LET cas == {[profile |-> "client", ssl_config |-> Conf(c),
                 certificate |-> Text("CA-CERT"), certs |-> << >>] : c \in ConfTexts}
        built == {get_ca_env_configuration(ca, loc) : ca \in cas, loc \in KeyLocators}
    IN  {r.v : r \in {b \in built : b.ok}}

InitConf ==
    /\ env \in ConfEnvs
    /\ proc = [p \in Callers |-> IdleProc]
    /\ fs = [d \in TmpNames |-> NoDir]
    /\ pure = NoPure

NextConf ==
    \/ \E p \in DOMAIN proc : generate_crl_pem(p, T0)
    \/ \E p \in DOMAIN proc : Mkdtemp(p)
    \/ \E p \in DOMAIN proc : _prepare_dir_structures(p)
    \/ \E p \in DOMAIN proc : WriteNode(p)
    \/ \E p \in DOMAIN proc : CtorExcept(p)

SpecConf == InitConf /\ [][NextConf]_vars

-----------------------------------------------------------------------------
(* The specifications of the codecs: the input is drawn, the codec applied *)

NotCalled == [t |-> "notcalled"]

InitSerial ==
    /\ env \in {NoVal}
    /\ proc = << >>
    /\ fs = [d \in TmpNames |-> NoDir]
    /\ \E sn \in SerialInputs :
          pure = [fn |-> "serial", in |-> sn, out |-> NotCalled, again |-> NotCalled]

\* out = _format_openssl_serial_number(in)
FormatSerial ==
    /\ pure.fn = "serial"
    /\ pure.out = NotCalled
    /\ pure' = [pure EXCEPT !.out = _format_openssl_serial_number(pure.in)]
    /\ UNCHANGED <<env, proc, fs>>

\* again = _format_openssl_serial_number(out), when the first call returned
FormatSerialAgain ==
    /\ pure.fn = "serial"
    /\ pure.out # NotCalled
    /\ pure.out.ok
    /\ pure.again = NotCalled
    /\ pure' = [pure EXCEPT !.again = _format_openssl_serial_number(pure.out.v)]
    /\ UNCHANGED <<env, proc, fs>>

NextSerial == FormatSerial \/ FormatSerialAgain

SpecSerial == InitSerial /\ [][NextSerial]_vars

InitIndex ==
    /\ env \in {NoVal}
    /\ proc = << >>
    /\ fs = [d \in TmpNames |-> NoDir]
    /\ \E certs \in SeqsUpTo(CertPool, MaxCerts), now \in Nows :
          pure = [fn |-> "index", certs |-> certs, now |-> now, out |-> NotCalled]

\* out = _make_openssl_index_file_content(iter(certs)), utcnow() being now
MakeIndex ==
    /\ pure.fn = "index"
    /\ pure.out = NotCalled
    /\ pure' = [pure EXCEPT !.out = _make_openssl_index_file_content(pure.certs, pure.now)]
    /\ UNCHANGED <<env, proc, fs>>

NextIndex == MakeIndex

SpecIndex == InitIndex /\ [][NextIndex]_vars

-----------------------------------------------------------------------------
(* Properties of the operations (specification Spec) *)

Ended(p) == proc[p].pc \in {"returned", "raised"}

Last(q) == q[Len(q)]

\* C1: whenever an operation that created a sandbox directory has returned
\* or raised, that directory and everything under it is gone.
C1_SandboxGoneAtEnd ==
    \A p \in DOMAIN proc :
        (Ended(p) /\ proc[p].dir # "") => fs[proc[p].dir] = NoDir

\* C1 witness: an operation whose tool ran with exit status 0 and whose
\* output file could not be read back has raised, and its directory is gone.
C1_Witness ==
    \E p \in DOMAIN proc :
        /\ proc[p].pc = "raised"
        /\ proc[p].err.kind = "IOError"
        /\ proc[p].cmds # << >>
        /\ Last(proc[p].cmds).rc = 0
        /\ proc[p].dir # ""
        /\ ~fs[proc[p].dir].exists

\* C2: when the construction of a TmpEnv fails (the nodes could not be
\* defined, or the write of an init value raised), the step that leaves the
\* constructor removes the sandbox directory and raises the very error that
\* was raised.
C2_CtorFailureCleansAndReraises ==
    [][\A p \in DOMAIN proc :
          (proc[p].pc = "ctor_except" /\ proc'[p].pc # "ctor_except")
          => /\ proc'[p].pc = "raised"
             /\ proc'[p].err = proc[p].err
             /\ proc[p].err.kind # "none"
             /\ fs'[proc[p].dir] = NoDir]_vars

\* C2 witness: the constructor has failed on the configuration, after the CA
\* key had been written, and the directory is gone.
C2_Witness ==
    \E p \in DOMAIN proc :
        /\ proc[p].pc = "raised"
        /\ proc[p].err.kind = "InvalidSSLConfigError"
        /\ proc[p].value["ca_key"].t = "text"
        /\ proc[p].todo = <<"ssl_conf">>
        /\ ~fs[proc[p].dir].exists

\* C3: once the tool has exited non-zero, no further command is run, the
\* operation is failing (or has failed) with the CA-tool error carrying the
\* output the tool printed, nothing has been read back, and the operation
\* never returns.
C3_ToolFailureSurfaces ==
    \A p \in DOMAIN proc :
        \A i \in 1..Len(proc[p].cmds) :
            proc[p].cmds[i].rc # 0
            => /\ i = Len(proc[p].cmds)
               /\ proc[p].pc \in {"exit", "raised"}
               /\ proc[p].err.kind = "RuntimeError"
               /\ proc[p].err.output = proc[p].cmds[i].output
               /\ proc[p].result = NoVal

\* C3 witness: a revoke-and-generate-CRL operation has raised the CA-tool
\* error of its second command.
C3_Witness ==
    \E p \in DOMAIN proc :
        /\ proc[p].pc = "raised"
        /\ proc[p].err.kind = "RuntimeError"
        /\ Len(proc[p].cmds) = 2
        /\ proc[p].cmds[2].step = "gencrl"
        /\ proc[p].cmds[2].rc = 1

HasPolicyArgs(cmd) ==
    \E i \in 1..(Len(cmd) - 1) :
        /\ cmd[i] = Word("-policy")
        /\ cmd[i + 1] = Word("server_component_serviceCA_policy")

SerialAccepted(sn) ==
    Bind(normalize_hex_serial_number(sn, CERTIFICATE_SERIAL_NUMBER_HEXDIGIT_NUM),
         LAMBDA n : _format_openssl_serial_number(n)).ok

\* C10: a sign command carries the alternate signing-policy arguments exactly
\* when server_component_n6login is not None; and a generate_certificate_pem
\* call with a server_component_n6login on a CA whose profile is not the
\* service profile has failed with no sandbox directory created and no tool
\* invoked, on the precondition (AssertionError) whenever its serial number
\* got as far as the precondition.
C10_PolicyOnlyForServerComponent ==
    \A p \in DOMAIN proc :
        /\ \A i \in 1..Len(proc[p].cmds) :
              proc[p].cmds[i].step = "sign"
              => (HasPolicyArgs(proc[p].cmds[i].cmd) <=> proc[p].n6login.t # "none")
        /\ \A i \in 1..Len(proc[p].cmds) :
              proc[p].cmds[i].step # "sign" => ~HasPolicyArgs(proc[p].cmds[i].cmd)
        /\ (/\ proc[p].op = "sign"
            /\ proc[p].n6login.t # "none"
            /\ env.ca.profile # SERVICE_CA_PROFILE_NAME)
           => /\ proc[p].pc = "raised"
              /\ proc[p].dir = ""
              /\ proc[p].cmds = << >>
              /\ \A d \in TmpNames : ~fs[d].exists
              /\ SerialAccepted(proc[p].serial_number)
                 => proc[p].err.kind = "AssertionError"

\* C10 witness: a call with a server_component_n6login and an acceptable
\* serial number on a CA of another profile has failed on the precondition.
C10_Witness ==
    \E p \in DOMAIN proc :
        /\ proc[p].op = "sign"
        /\ proc[p].n6login.t # "none"
        /\ env.ca.profile # SERVICE_CA_PROFILE_NAME
        /\ SerialAccepted(proc[p].serial_number)
        /\ proc[p].pc = "raised"
        /\ proc[p].err.kind = "AssertionError"

-----------------------------------------------------------------------------
(* Properties of the configuration node (specification SpecConf) *)

\* the configuration text the caller p gave for the ssl_conf node
GivenConf(p) == proc[p].init_values["ssl_conf"].v

HasConf(p) == "ssl_conf" \in DOMAIN proc[p].init_values

\* the construction of p's sandbox failed in the write of the ssl_conf node
FailedAtSslConf(p) ==
    /\ proc[p].pc \in {"ctor_except", "raised"}
    /\ proc[p].todo = <<"ssl_conf">>

\* C4: a configuration text that does not parse makes the write of the
\* configuration node fail with InvalidSSLConfigError, whose original_exc is
\* the parse failure, and with nothing else; openssl.cnf is never written and
\* the node keeps no value.
C4_MalformedConfigIsInvalidSSLConfigError ==
    \A p \in DOMAIN proc :
        (HasConf(p) /\ ~ConfigString(GivenConf(p)).ok)
        => /\ proc[p].value["ssl_conf"] = NoVal
           /\ \A d \in TmpNames : fs[d].files["ssl_conf"] = NoVal
           /\ proc[p].pc # "body"
           /\ FailedAtSslConf(p)
              => proc[p].err = [kind |-> "InvalidSSLConfigError",
                                original_exc |-> ConfigString(GivenConf(p)).err]

\* C4 witness: the construction has failed on a text whose last line does
\* not parse.
C4_Witness ==
    \E p \in DOMAIN proc :
        /\ HasConf(p)
        /\ Last(GivenConf(p)).t = "junk"
        /\ FailedAtSslConf(p)
        /\ proc[p].pc = "raised"
        /\ proc[p].err.kind = "InvalidSSLConfigError"

\* the ssl_conf node of p holds an adapted configuration
Adapted(p) == proc[p].value["ssl_conf"].t = "conf"

AdaptedText(p) == proc[p].value["ssl_conf"].v

\* the section ca.default_ca names
ActiveSection(text) == Head(get_opt_value(text, "ca", "default_ca").v)

OptionIs(text, sect, opt, val) == get_opt_value(text, sect, opt) = Returned(val)

\* dir, database, new_certs_dir and serial of the active section hold the
\* sandbox-local paths
SandboxPathsSet(p) ==
    LET text == AdaptedText(p)
        sect == ActiveSection(text)
        root == Root(proc[p].dir)
    IN  /\ OptionIs(text, sect, "dir", root)
        /\ OptionIs(text, sect, "database", root \o <<"index.txt">>)
        /\ OptionIs(text, sect, "new_certs_dir", root \o <<"certs">>)
        /\ OptionIs(text, sect, "serial", root \o <<"serial">>)

\* C5: after the adaptation of a configuration without a hardware-engine
\* descriptor, the active CA section has dir = the sandbox root, database,
\* new_certs_dir, serial and private_key = the paths of the index, certs
\* directory, serial and CA key nodes; each lies under the sandbox root.
C5_PathsPointIntoSandbox ==
    \A p \in DOMAIN proc :
        (Adapted(p) /\ proc[p].pkcs11_opts_dict = NoVal)
        => LET text == AdaptedText(p)
               sect == ActiveSection(text)
               root == Root(proc[p].dir)
           IN  /\ SandboxPathsSet(p)
               /\ OptionIs(text, sect, "private_key", root \o <<"private", "cakey.pem">>)
               /\ \A opt \in {"dir", "database", "new_certs_dir", "serial", "private_key"} :
                     /\ get_opt_value(text, sect, opt).ok
                     /\ IsPrefix(root, get_opt_value(text, sect, opt).v)
                     /\ get_opt_value(text, sect, opt).v # OrigPath(opt)

\* C5 witness: a configuration whose [ca] section comes after the section it
\* names has been adapted without a descriptor and written.
C5_Witness ==
    \E p \in DOMAIN proc :
        /\ Adapted(p)
        /\ proc[p].pkcs11_opts_dict = NoVal
        /\ proc[p].pc = "body"
        /\ fs[proc[p].dir].files["ssl_conf"] = proc[p].value["ssl_conf"]
        /\ ActiveSection(AdaptedText(p)) = "CA_default"
        /\ SectIndex(AdaptedText(p), "ca") > SectIndex(AdaptedText(p), "CA_default")

\* the engine stanza, filled in from the descriptor d
EngineStanza(d) ==
    <<OptLine("openssl_conf", <<"openssl_def">>),
      SectLine("openssl_def"),
      OptLine("engines", <<"engine_section">>),
      SectLine("engine_section"),
      OptLine("pkcs11", <<"pkcs11_section">>),
      SectLine("pkcs11_section"),
      OptLine("engine_id", <<"pkcs11">>),
      OptLine("dynamic_path", d["pkcs11_dynamic_path"]),
      OptLine("MODULE_PATH", d["pkcs11_module_path"]),
      OptLine("init", <<"0">>)>>

\* the lines right above the header of section sect are the engine stanza
StanzaImmediatelyAbove(text, sect, d) ==
    LET h == SectIndex(text, sect)
        n == Len(EngineStanza(d))
    IN  /\ h > n
        /\ SubSeq(text, h - n, h - 1) = EngineStanza(d)

NoPrivateKey(text) == OptIndex(text, ActiveSection(text), "private_key") = 0

WithDescriptor(p) == Adapted(p) /\ Truthy(proc[p].pkcs11_opts_dict)

\* C6 as claimed: with a descriptor, the engine stanza stands immediately
\* above the active CA section (the one ca.default_ca names), which has no
\* private_key any more and keeps the sandbox-local paths.
C6_StanzaAboveActiveSection ==
    \A p \in DOMAIN proc :
        WithDescriptor(p)
        => /\ StanzaImmediatelyAbove(AdaptedText(p), ActiveSection(AdaptedText(p)),
                                     proc[p].pkcs11_opts_dict.v)
           /\ NoPrivateKey(AdaptedText(p))
           /\ SandboxPathsSet(p)

\* C6 amended: with a descriptor, the engine stanza stands immediately above
\* the section named ca (the one that holds the default_ca pointer); the
\* active CA section has no private_key any more and keeps the sandbox-local
\* paths.
C6_StanzaAboveCaPointerSection ==
    \A p \in DOMAIN proc :
        WithDescriptor(p)
        => /\ StanzaImmediatelyAbove(AdaptedText(p), "ca", proc[p].pkcs11_opts_dict.v)
           /\ NoPrivateKey(AdaptedText(p))
           /\ SandboxPathsSet(p)

\* C6 witness: a configuration whose active CA section is not the section
\* named ca has been adapted with a descriptor.
C6_Witness ==
    \E p \in DOMAIN proc :
        /\ WithDescriptor(p)
        /\ ActiveSection(AdaptedText(p)) = "CA_default"
        /\ proc[p].pc = "body"

-----------------------------------------------------------------------------
(* Properties of the index codec (specification SpecIndex) *)

Rendered == pure.fn = "index" /\ pure.out # NotCalled /\ pure.out.ok

\* the text cut at its newlines; a newline-terminated text ends in an empty
\* piece
IndexPieces == SplitOn(pure.out.v, {NL}, -1)

IndexFields(i) == SplitOn(IndexPieces[i], {TAB}, -1)

IsSet(ts) == ts.t # "none"

InThePast(ts, now) == IsSet(ts) /\ NaiveGreater(now, ts)

\* C7: the status flag of every rendered record is R iff its revocation
\* timestamp is set; otherwise E iff it has an expiry timestamp in the past;
\* otherwise V.
C7_StatusFlag ==
    Rendered =>
        \A i \in 1..Len(pure.certs) :
            LET c == pure.certs[i]
                flag == IndexFields(i)[1]
            IN  /\ Len(flag) = 1
                /\ flag[1] \in {"V", "R", "E"}
                /\ flag[1] = "R" <=> IsSet(c.revoked_on)
                /\ ~IsSet(c.revoked_on)
                   => (flag[1] = "E" <=> InThePast(c.expires_on, pure.now))
                /\ (~IsSet(c.revoked_on) /\ ~InThePast(c.expires_on, pure.now))
                   => flag[1] = "V"

\* C7 witness: a revoked record whose expiry is in the past, and a record
\* that expires in the future, have been rendered.
C7_Witness ==
    /\ Rendered
    /\ Len(pure.certs) = 2
    /\ IsSet(pure.certs[1].revoked_on)
    /\ InThePast(pure.certs[1].expires_on, pure.now)
    /\ IndexFields(1)[1] = <<"R">>
    /\ IsSet(pure.certs[2].expires_on)
    /\ ~InThePast(pure.certs[2].expires_on, pure.now)
    /\ IndexFields(2)[1] = <<"V">>

FormattedOrEmpty(ts) == IF IsSet(ts) THEN _format_openssl_dt(ts).v ELSE << >>

\* C8: the index rendered of n records is n newline-terminated lines, the
\* i-th made of six tab-separated fields: the status, the expiry or nothing,
\* the revocation or nothing, the serial number, "unknown" and the subject
\* of the i-th record.
C8_OneLinePerRecordSixFields ==
    Rendered =>
        /\ Len(IndexPieces) = Len(pure.certs) + 1
        /\ Last(IndexPieces) = << >>
        /\ \A i \in 1..Len(pure.certs) :
              LET c == pure.certs[i]
                  f == IndexFields(i)
              IN  /\ Len(f) = 6
                  /\ f[1] \in {<<"V">>, <<"R">>, <<"E">>}
                  /\ f[2] = FormattedOrEmpty(c.expires_on)
                  /\ f[3] = FormattedOrEmpty(c.revoked_on)
                  /\ f[4] = _format_openssl_serial_number(c.serial_hex).v.v
                  /\ f[5] = <<"u", "n", "k", "n", "o", "w", "n">>
                  /\ f[6] = c.subject

\* C8 witness: two different records have been rendered, the first with
\* both timestamps, the second with none.
C8_Witness ==
    /\ Rendered
    /\ Len(pure.certs) = 2
    /\ pure.certs[1] # pure.certs[2]
    /\ IsSet(pure.certs[1].expires_on) /\ IsSet(pure.certs[1].revoked_on)
    /\ ~IsSet(pure.certs[2].expires_on) /\ ~IsSet(pure.certs[2].revoked_on)
    /\ Len(IndexPieces) = 3

-----------------------------------------------------------------------------
(* Properties of the serial-number codec (specification SpecSerial) *)

HexDigits == HexDigitsLower \cup {"A", "B", "C", "D", "E", "F"}

IsHexString(sn) ==
    /\ sn.t \in {"str", "unicode"}
    /\ Len(sn.v) > 0
    /\ \A i \in 1..Len(sn.v) : sn.v[i] \in HexDigits

Formatted == pure.fn = "serial" /\ pure.out # NotCalled

\* C9: _format_openssl_serial_number returns, for every hexadecimal string,
\* a string of an even number of digits, none of them a lowercase letter; an
\* input of odd length comes back with one 0 put before its uppercase form
\* ("ABC" gives "0ABC"), one of even length as its uppercase form; and
\* formatting the result again gives the result.
C9_FormatSerialIdempotent ==
    Formatted =>
        /\ IsHexString(pure.in) => pure.out.ok
        /\ pure.out.ok =>
              /\ IsHexString(pure.in)
              /\ Len(pure.out.v.v) % 2 = 0
              /\ \A i \in 1..Len(pure.out.v.v) :
                    pure.out.v.v[i] \in HexDigits \ {"a", "b", "c", "d", "e", "f"}
              /\ pure.out.v.v = (IF Len(pure.in.v) % 2 = 1 THEN <<"0">> ELSE << >>)
                                \o StrUpper(pure.in.v)
        /\ pure.in.v = <<"A", "B", "C">> => pure.out.v.v = <<"0", "A", "B", "C">>
        /\ pure.again # NotCalled => pure.again = pure.out

\* C9 witness: a string of odd length with a lowercase digit has been
\* formatted, and its result formatted again.
C9_Witness ==
    /\ Formatted
    /\ pure.in.v = <<"a", "0", "B">>
    /\ pure.out.ok
    /\ pure.out.v.v = <<"0", "A", "0", "B">>
    /\ pure.again # NotCalled


-----------------------------------------------------------------------------
(* The specification of the bundle builder: a CA and a key-material locator
   are drawn, get_ca_env_configuration is applied.  A pkcs11 locator is put
   together from its parts, which are kept to compare the outcome with. *)

RECURSIVE JoinTokens(_, _)
JoinTokens(tokens, sep) ==
    IF tokens = << >> THEN << >>
    ELSE IF Len(tokens) = 1 THEN Head(tokens)
    ELSE Head(tokens) \o sep \o JoinTokens(Tail(tokens), sep)

EnvDynPaths == {<<"/usr/lib/engines/engine_pkcs11.so">>, << >>}

EnvModulePaths == {<<"/usr/lib/opensc-pkcs11.so">>}

EnvTokenLists ==
    { << >>,
      <<<<"-keyfile">>>>,
      <<<<"-keyfile">>, <<"foo", ":", "bar">>>>,
      <<<<"-keyfile">>, <<"foo", ":", "bar">>, <<"-keyform">>, <<"spam">>>> }

\* the whitespace between, and around, the extra arguments
EnvSpacings ==
    { [sep |-> <<" ">>,      pad |-> << >>],
      [sep |-> <<" ", " ">>, pad |-> << >>],
      [sep |-> <<" ">>,      pad |-> <<" ">>] }

EnvPkcs11Inputs ==
    { [loc    |-> <<"pkcs11", ":">> \o dyn \o <<":">> \o mod \o <<":">>
                    \o sp.pad \o JoinTokens(toks, sp.sep) \o sp.pad,
       expect |-> [dyn |-> dyn, mod |-> mod, tokens |-> toks]] :
        dyn \in EnvDynPaths, mod \in EnvModulePaths,
        toks \in EnvTokenLists, sp \in EnvSpacings }

\* locators that are no well-formed pkcs11 locator: files that exist or do
\* not, and pkcs11 locators with too few parts
EnvOtherInputs ==
    { [loc |-> l, expect |-> NoVal] :
        l \in { <<"/etc/n6/cakey.pem">>, <<"pkcs11">>, <<"/etc/n6/missing.pem">>,
                <<"PKCS11", ":", "a", ":", "b", ":", "c">>,
                <<"pkcs11", ":">>,
                <<"pkcs11", ":", "a", ":", "b">> } }

EnvCAs ==
    {[profile |-> pr, ssl_config |-> Conf(c), certificate |-> Text("CA-CERT"),
      certs |-> << >>] :
        pr \in {SERVICE_CA_PROFILE_NAME, "client"}, c \in MainConfs}

InitEnv ==
    /\ env \in {NoVal}
    /\ proc = << >>
    /\ fs = [d \in TmpNames |-> NoDir]
    /\ \E ca \in EnvCAs, i \in EnvPkcs11Inputs \cup EnvOtherInputs :
          pure = [fn |-> "env", ca |-> ca, loc |-> i.loc, expect |-> i.expect,
                  out |-> NotCalled]

\* out = get_ca_env_configuration(ca, ca_key_path)
GetCaEnvConfiguration ==
    /\ pure.fn = "env"
    /\ pure.out = NotCalled
    /\ pure' = [pure EXCEPT !.out = get_ca_env_configuration(pure.ca, pure.loc)]
    /\ UNCHANGED <<env, proc, fs>>

NextEnv == GetCaEnvConfiguration

SpecEnv == InitEnv /\ [][NextEnv]_vars

-----------------------------------------------------------------------------
(* Properties of the bundle builder (specification SpecEnv) *)

Built == pure.fn = "env" /\ pure.out # NotCalled

BuiltBase == pure.out.v.tmp_env_init_kwargs_base

StartsWithPkcs11 == IsPrefix(<<"pkcs11", ":">>, pure.loc)

\* C11: the bundle get_ca_env_configuration returns holds exactly one of the
\* hardware-engine descriptor and the raw key bytes: the descriptor, made of
\* the locator's dynamic-module path, module path and whitespace-separated
\* extra tokens, exactly when the locator starts with pkcs11:, and the bytes
\* of the key file otherwise.  A well-formed pkcs11 locator and a readable
\* key file always yield a bundle.
C11_DescriptorXorKeyBytes ==
    Built =>
        /\ pure.out.ok =>
              /\ ("pkcs11_opts_dict" \in DOMAIN BuiltBase) # ("ca_key" \in DOMAIN BuiltBase)
              /\ ("pkcs11_opts_dict" \in DOMAIN BuiltBase) <=> StartsWithPkcs11
              /\ "ca_key" \in DOMAIN BuiltBase
                    => BuiltBase["ca_key"] = KeyFiles[pure.loc]
              /\ "pkcs11_opts_dict" \in DOMAIN BuiltBase
                    => /\ pure.expect # NoVal
                       /\ BuiltBase["pkcs11_opts_dict"] = DictVal(
                            [pkcs11_dynamic_path |-> pure.expect.dyn,
                             pkcs11_module_path  |-> pure.expect.mod,
                             pkcs11_additional_openssl_cmd_arg_list |-> pure.expect.tokens])
              /\ BuiltBase["ssl_conf"] = pure.ca.ssl_config
              /\ BuiltBase["ca_cert"] = pure.ca.certificate
              /\ pure.out.v.ca = pure.ca
        /\ (pure.expect # NoVal \/ pure.loc \in DOMAIN KeyFiles) => pure.out.ok

\* C11 witness: a pkcs11 locator whose extra-argument string holds a colon
\* and runs of blanks has given a descriptor with its tokens.
C11_Witness ==
    /\ Built
    /\ pure.out.ok
    /\ "pkcs11_opts_dict" \in DOMAIN BuiltBase
    /\ Len(BuiltBase["pkcs11_opts_dict"].v["pkcs11_additional_openssl_cmd_arg_list"]) = 4
    /\ \E k \in 1..(Len(pure.loc) - 1) : pure.loc[k] = " " /\ pure.loc[k + 1] = " "

-----------------------------------------------------------------------------
(* Properties of the tool commands (specification Spec) *)

\* the bundle holds a hardware-engine descriptor
DescriptorConfigured == "pkcs11_opts_dict" \in DOMAIN env.tmp_env_init_kwargs_base

\* the arguments of a command that follow its -batch flag
AfterBatch(cmd) ==
    LET b == CHOOSE i \in 1..Len(cmd) : cmd[i] = Word("-batch")
    IN  SubSeq(cmd, b + 1, Len(cmd))

\* the hardware-engine arguments the descriptor of the bundle and the adapted
\* configuration of p call for
EngineArgs(p) ==
    <<Word("-engine"), Word("pkcs11")>>
    \o env.tmp_env_init_kwargs_base["pkcs11_opts_dict"].v[
           "pkcs11_additional_openssl_cmd_arg_list"]
    \o <<Word("-name"), Word(ActiveSection(AdaptedText(p)))>>

PolicyArgs(p, run) ==
    IF run.step = "sign" /\ proc[p].n6login # NoVal
    THEN SERVER_COMPONENT_ADDITIONAL_OPENSSL_COMMAND_ARGS ELSE << >>

\* C12: in every sign, revoke and generate-CRL command, -batch occurs once
\* and what follows it is: with a descriptor, -engine pkcs11, the descriptor's
\* extra tokens in order, -name and the active CA section of the adapted
\* configuration; without one, nothing; then, in a sign command only, the
\* signing-policy arguments.
C12_EngineArgsAfterBatchBeforePolicy ==
    \A p \in DOMAIN proc :
        \A i \in 1..Len(proc[p].cmds) :
            LET run == proc[p].cmds[i]
            IN  /\ Cardinality({k \in 1..Len(run.cmd) : run.cmd[k] = Word("-batch")}) = 1
                /\ AfterBatch(run.cmd) =
                      (IF DescriptorConfigured THEN EngineArgs(p) ELSE << >>)
                      \o PolicyArgs(p, run)
                /\ DescriptorConfigured
                      <=> \E k \in 1..Len(run.cmd) : run.cmd[k] = Word("-engine")

\* C12 witness: a sign command has been run with a descriptor of four extra
\* tokens and with the signing-policy arguments.
C12_Witness ==
    \E p \in DOMAIN proc :
        /\ DescriptorConfigured
        /\ proc[p].cmds # << >>
        /\ proc[p].cmds[1].step = "sign"
        /\ proc[p].n6login # NoVal
        /\ Len(AfterBatch(proc[p].cmds[1].cmd)) = 10

-----------------------------------------------------------------------------
(* The specification of the date codec: an instant is drawn and written down
   in two ways (naive, or aware under some UTC offset, with some sub-second
   part); _format_openssl_dt is applied to each.  Values that are no datetime
   are drawn as well. *)

DateInstants ==
    { T0,
      DateTime(2013, 1, 1, 0, 30, 0, 0),
      DateTime(2012, 2, 29, 23, 45, 10, 0),
      DateTime(2013, 12, 31, 23, 59, 59, 0),
      DateTime(2000, 3, 1, 0, 0, 0, 0),
      DateTime(1999, 12, 31, 22, 0, 5, 0),
      DateTime(1899, 12, 31, 23, 0, 0, 0) }

DateOffsets == {-300, 0, 120, 330}

\* the wall-clock reading, under UTC offset off (minutes), of the instant
\* whose UTC reading is utc
AtOffset(utc, off, us) ==
    LET m == utc.h * 60 + utc.mi + off
        day == IF m < 0 THEN PrevDay(utc)
               ELSE IF m >= 1440 THEN NextDay(utc) ELSE utc
        mm == IF m < 0 THEN m + 1440 ELSE IF m >= 1440 THEN m - 1440 ELSE m
    IN  AwareDateTime(day.y, day.mo, day.d, mm \div 60, mm % 60, utc.s, us, off)

\* the datetime values that denote the instant utc
Readings(utc) ==
    {[utc EXCEPT !.us = us] : us \in {0, 951211}}
    \cup {AtOffset(utc, off, us) : off \in DateOffsets, us \in {0, 5}}

NonTimestamps ==
    { NoVal, Text("2014-08-08 12:01:23"), [t |-> "int", v |-> 1370520837],
      [t |-> "date", y |-> 2013, mo |-> 6, d |-> 6] }

InitDate ==
    /\ env \in {NoVal}
    /\ proc = << >>
    /\ fs = [d \in TmpNames |-> NoDir]
    /\ \/ \E utc \in DateInstants : \E a \in Readings(utc), b \in Readings(utc) :
             pure = [fn |-> "date", instant |-> utc, in |-> a, other |-> b,
                     out |-> NotCalled, out2 |-> NotCalled]
       \/ \E x \in NonTimestamps :
             pure = [fn |-> "date", instant |-> NoVal, in |-> x, other |-> x,
                     out |-> NotCalled, out2 |-> NotCalled]

\* out = _format_openssl_dt(in)
FormatDt ==
    /\ pure.fn = "date"
    /\ pure.out = NotCalled
    /\ pure' = [pure EXCEPT !.out = _format_openssl_dt(pure.in)]
    /\ UNCHANGED <<env, proc, fs>>

\* out2 = _format_openssl_dt(other)
FormatDtOther ==
    /\ pure.fn = "date"
    /\ pure.out2 = NotCalled
    /\ pure' = [pure EXCEPT !.out2 = _format_openssl_dt(pure.other)]
    /\ UNCHANGED <<env, proc, fs>>

NextDate == FormatDt \/ FormatDtOther

SpecDate == InitDate /\ [][NextDate]_vars

-----------------------------------------------------------------------------
(* Properties of the date codec (specification SpecDate) *)

DecimalDigits == {"0", "1", "2", "3", "4", "5", "6", "7", "8", "9"}

\* YYMMDDHHMMSSZ of a UTC reading
UtcTimeText(utc) ==
    TwoDigits(utc.y % 100) \o TwoDigits(utc.mo) \o TwoDigits(utc.d)
    \o TwoDigits(utc.h) \o TwoDigits(utc.mi) \o TwoDigits(utc.s) \o <<"Z">>

-----------------------------------------------------------------------------
(* Properties of the bundle across operations (specification Spec) *)

\* the init values an operation adds to those of the bundle
OwnKeys(op) ==
    CASE op = "sign"   -> {"csr", "serial", "index"}
      [] op = "crl"    -> {"index", "serial"}
      [] op = "revoke" -> {"index", "serial", "revoke_cert"}
      [] OTHER         -> {}

\* p has reached TmpEnv.__init__ in its current operation
InSandboxScope(p) == proc[p].init_values # EmptyDict

\* what p's sandbox was constructed with is the bundle's base values and the
\* values of p's own operation, nothing of another call
PerCallValuesOnly ==
    \A p \in DOMAIN proc :
        InSandboxScope(p) =>
            LET base == env.tmp_env_init_kwargs_base
                given == proc[p].init_values
            IN  /\ DOMAIN given = (DOMAIN base \ {"pkcs11_opts_dict"}) \cup OwnKeys(proc[p].op)
                /\ \A k \in DOMAIN base \ {"pkcs11_opts_dict"} : given[k] = base[k]
                /\ proc[p].pkcs11_opts_dict =
                      (IF "pkcs11_opts_dict" \in DOMAIN base
                       THEN base["pkcs11_opts_dict"] ELSE NoVal)
                /\ "csr" \in DOMAIN given => proc[p].op = "sign"
                /\ "revoke_cert" \in DOMAIN given => proc[p].op = "revoke"
                /\ proc[p].op = "sign" => given["index"] = Str(<< >>)
                /\ proc[p].op = "crl" => given["serial"] = Str(<< >>)

\* C14: no step of any operation, succeeding or failing, changes the bundle
\* (its base init values, its descriptor and the descriptor's token list),
\* and every sandbox is constructed with the bundle's base values and the
\* values of its own operation only: csr, serial, index and revoke_cert of
\* one call do not show up in a later one.
C14_BundleImmutable == [][env' = env /\ PerCallValuesOnly']_vars

\* C14 witness: a generate-CRL call that follows an earlier call on the same
\* bundle, which holds a descriptor, has constructed its sandbox.
C14_Witness ==
    \E p \in DOMAIN proc :
        /\ proc[p].calls >= 1
        /\ proc[p].op = "crl"
        /\ proc[p].pc = "body"
        /\ DescriptorConfigured

-----------------------------------------------------------------------------
(* Properties of revocation (specification Spec) *)

\* C15: in revoke_certificate_and_generate_crl_pem the commands run are, in
\* this order, the revoke command and then the generate-CRL command, both in
\* the one sandbox of the operation; the generate-CRL command is run only
\* after a revoke command that exited with 0; when the revoke command fails
\* it stays the only command, no CRL is read back and the operation raises
\* the CA-tool error.
C15_RevokeBeforeGenCrl ==
    \A p \in DOMAIN proc :
        proc[p].op = "revoke" =>
            LET cmds == proc[p].cmds
            IN  /\ Len(cmds) <= 2
                /\ Len(cmds) >= 1 => cmds[1].step = "revoke"
                /\ Len(cmds) = 2 => /\ cmds[2].step = "gencrl"
                                    /\ cmds[1].rc = 0
                                    /\ cmds[2].dir = cmds[1].dir
                /\ \A i \in 1..Len(cmds) :
                      /\ cmds[i].dir = proc[p].dir
                      /\ cmds[i].cmd[4] = Path(p, "ssl_conf")
                /\ (Len(cmds) >= 1 /\ cmds[1].rc # 0)
                      => /\ Len(cmds) = 1
                         /\ proc[p].result = NoVal
                         /\ proc[p].pc \in {"exit", "raised"}
                         /\ proc[p].err = [kind |-> "RuntimeError", output |-> cmds[1].output]
                /\ proc[p].result # NoVal
                      => Len(cmds) = 2 /\ cmds[1].rc = 0 /\ cmds[2].rc = 0

\* C15 witness: a revocation whose revoke command failed has raised; the
\* sandbox is gone and no second command was run.
C15_Witness ==
    \E p \in DOMAIN proc :
        /\ proc[p].op = "revoke"
        /\ proc[p].pc = "raised"
        /\ Len(proc[p].cmds) = 1
        /\ proc[p].cmds[1].step = "revoke"
        /\ proc[p].cmds[1].rc = 1

-----------------------------------------------------------------------------
(* Properties of the sandbox's construction and life (specification Spec) *)

\* p's sandbox directory exists with every node's directory made and every
\* provided init value, the configuration in its adapted form, written to
\* its node; nothing has been removed
SandboxComplete(p) ==
    /\ proc[p].dir \in TmpNames
    /\ fs[proc[p].dir].exists
    /\ fs[proc[p].dir].subdirs = NodeSubdirs
    /\ proc[p].todo = << >>
    /\ proc[p].cleanups = 0
    /\ \A n \in DOMAIN proc[p].init_values :
          /\ proc[p].value[n] = fs[proc[p].dir].files[n]
          /\ Let(AdjustedValue(p, n, proc[p].init_values[n]),
                 LAMBDA adj : adj.ok /\ fs[proc[p].dir].files[n] = adj.v)

\* the step leaves p's sandbox directory and the files of the provided init
\* values as they are
SandboxKept(p) ==
    /\ fs'[proc[p].dir].exists
    /\ fs'[proc[p].dir].subdirs = fs[proc[p].dir].subdirs
    /\ \A n \in DOMAIN proc[p].init_values :
          fs'[proc[p].dir].files[n] = fs[proc[p].dir].files[n]

\* the step is a tool invocation of p
ToolInvoked(p) == Len(proc'[p].cmds) > Len(proc[p].cmds)

\* C16: a tool command is invoked only in a sandbox that is complete (all
\* nodes defined, every provided init value written, the configuration
\* adapted) and not yet deleted, and the sandbox is still there when the tool
\* has ended.
C16_NoToolOnPartialSandbox ==
    [][\A p \in DOMAIN proc :
          ToolInvoked(p) => SandboxComplete(p) /\ SandboxKept(p)]_vars

\* C16 witness: the second command of a revocation has been invoked, with a
\* descriptor, in a complete sandbox.
C16_Witness ==
    \E p \in DOMAIN proc :
        /\ Len(proc[p].cmds) = 2
        /\ proc[p].pc = "harvest"
        /\ DescriptorConfigured
        /\ SandboxComplete(p)

\* the construction of p's sandbox has ended well: p is in the with block or
\* has left it
Constructed(p) == proc[p].pc \in {"body", "harvest", "exit", "returned"} \/ proc[p].cmds # << >>

\* C17: in one sandbox no node is written more than once; only nodes an init
\* value was provided for are written; once the construction has ended every
\* provided init value has been written exactly once, and this stays so for
\* the rest of the sandbox's life.
C17_NodesWrittenAtMostOnce ==
    \A p \in DOMAIN proc :
        \A n \in NodeNames :
            /\ proc[p].writes[n] <= 1
            /\ proc[p].writes[n] > 0 => n \in DOMAIN proc[p].init_values
            /\ proc[p].writes[n] > 0 => proc[p].value[n] # NoVal
            /\ Constructed(p) =>
                  (proc[p].writes[n] = 1 <=> n \in DOMAIN proc[p].init_values)

\* C17 witness: a revocation has written its seven init values, one node
\* each, has run both commands and is about to leave the sandbox.
C17_Witness ==
    \E p \in DOMAIN proc :
        /\ proc[p].op = "revoke"
        /\ proc[p].pc = "exit"
        /\ Len(proc[p].cmds) = 2
        /\ Cardinality({n \in NodeNames : proc[p].writes[n] = 1}) = 7

-----------------------------------------------------------------------------
(* The specification of concurrent operations: two callers, each with one
   operation to run on the same bundle, their steps interleaved in any way *)

ConcCallers == {1, 2}

ConcEnvs ==
    LET ca == [profile |-> "client", ssl_config |-> Conf(GoodConf),
               certificate |-> Text("CA-CERT"), certs |-> << >>]
        built == {get_ca_env_configuration(ca, loc) : loc \in KeyLocators}
    IN  {r.v : r \in {b \in built : b.ok}}

ConcRevoked == CertRecord(Str(<<"a", "b", "c">>), SubjectA, NoVal, NoVal)

InitConc ==
    /\ env \in ConcEnvs
    /\ proc = [p \in ConcCallers |-> [IdleProc EXCEPT !.calls = MaxCalls - 1]]
    /\ fs = [d \in TmpNames |-> NoDir]
    /\ pure = NoPure

NextConc ==
    \/ \E p \in DOMAIN proc :
          generate_certificate_pem(p, Text("CSR-PEM"), Str(<<"1", "A">>), NoVal)
    \/ \E p \in DOMAIN proc : generate_crl_pem(p, T0)
    \/ \E p \in DOMAIN proc : revoke_certificate_and_generate_crl_pem(p, ConcRevoked, T0)
    \/ \E p \in DOMAIN proc : Mkdtemp(p)
    \/ \E p \in DOMAIN proc : _prepare_dir_structures(p)
    \/ \E p \in DOMAIN proc : WriteNode(p)
    \/ \E p \in DOMAIN proc : CtorExcept(p)
    \/ \E p \in DOMAIN proc : ExecuteCommand(p)
    \/ \E p \in DOMAIN proc : Harvest(p)
    \/ \E p \in DOMAIN proc : Exit(p)
    \/ \E p \in DOMAIN proc : NextCall(p)

SpecConc == InitConc /\ [][NextConc]_vars

-----------------------------------------------------------------------------
(* Properties of concurrent operations (specification SpecConc) *)

\* p's sandbox directory has been created and not yet removed
Live(p) == proc[p].pc \in {"prepare", "write", "ctor_except", "body", "harvest", "exit"}

\* every path among the arguments of p's commands lies under p's directory
CommandsInOwnSandbox(p) ==
    \A i \in 1..Len(proc[p].cmds) :
        /\ proc[p].cmds[i].dir = proc[p].dir
        /\ \A k \in 1..Len(proc[p].cmds[i].cmd) :
              Head(proc[p].cmds[i].cmd[k]) \in TmpNames
                  => Head(proc[p].cmds[i].cmd[k]) = proc[p].dir

\* live sandboxes are distinct directories, each with all its owner wrote
\* still in it, and each owner names only its own files
SandboxesApart ==
    /\ \A p, q \in DOMAIN proc :
          (p # q /\ Live(p) /\ Live(q)) => proc[p].dir # proc[q].dir
    /\ \A p \in DOMAIN proc :
          Live(p) =>
              /\ fs[proc[p].dir].exists
              /\ \A n \in NodeNames :
                    proc[p].writes[n] = 1 => fs[proc[p].dir].files[n] = proc[p].value[n]
              /\ CommandsInOwnSandbox(p)
              /\ (Adapted(p) /\ proc[p].pc = "body") => SandboxPathsSet(p)

\* a step that changes a directory is a step of one operation on its own
\* directory, which is the live directory of no other operation
StepInOwnSandbox ==
    \A d \in TmpNames :
        fs'[d] # fs[d] =>
            \E p \in DOMAIN proc :
                /\ proc'[p] # proc[p]
                /\ d \in {proc[p].dir, proc'[p].dir}
                /\ \A q \in DOMAIN proc \ {p} :
                      /\ proc'[q] = proc[q]
                      /\ Live(q) => proc[q].dir # d

\* C18: however the steps of concurrently running operations interleave,
\* their live sandbox directories are distinct, each operation creates,
\* writes, names in its commands, reads and removes only files of its own
\* directory, and the teardown of one leaves the files of the others in
\* place.
C18_ConcurrentSandboxesApart == []SandboxesApart /\ [][StepInOwnSandbox]_vars

\* C18 witness: one operation, its tool having failed, is about to tear its
\* sandbox down while the other, a revocation, has run both its commands in
\* its own sandbox.
C18_Witness ==
    \E p, q \in DOMAIN proc :
        /\ p # q
        /\ proc[p].pc = "exit" /\ proc[p].err.kind = "RuntimeError"
        /\ proc[q].pc = "harvest" /\ Len(proc[q].cmds) = 2
        /\ proc[p].dir # proc[q].dir
        /\ fs[proc[p].dir].exists /\ fs[proc[q].dir].exists

-----------------------------------------------------------------------------
(* Properties of the sandbox's teardown (specification Spec) *)

\* p's operation has created a sandbox directory
CreatedSandbox(p) == proc[p].dir \in TmpNames

\* C19: shutil.rmtree is called on a sandbox directory exactly once over the
\* sandbox's life: never before the operation ends, never twice, and once
\* the operation has returned or raised, on whichever path (failed
\* construction, normal end of the with block, exception inside it), exactly
\* once; without a directory it is not called at all.
C19_RmtreeExactlyOnce ==
    \A p \in DOMAIN proc :
        /\ proc[p].cleanups <= 1
        /\ ~CreatedSandbox(p) => proc[p].cleanups = 0
        /\ (CreatedSandbox(p) /\ Ended(p)) => proc[p].cleanups = 1
        /\ (CreatedSandbox(p) /\ ~Ended(p)) => proc[p].cleanups = 0

\* C19 witness: an operation whose tool failed inside the with block has
\* raised, its directory removed by one call of rmtree.
C19_Witness ==
    \E p \in DOMAIN proc :
        /\ proc[p].pc = "raised"
        /\ proc[p].err.kind = "RuntimeError"
        /\ CreatedSandbox(p)
        /\ proc[p].cleanups = 1
        /\ ~fs[proc[p].dir].exists

-----------------------------------------------------------------------------
(* The specification of a TmpEnv used on its own: it is constructed with a
   descriptor value (None, an empty dict, a fully populated dict) and init
   values, and its execute_* methods are called inside the with block *)

\* with TmpEnv(pkcs11_opts_dict=..., **init_values) as tmp_env:
\*     tmp_env.execute_...()
TmpEnv(p, pkcs11_opts_dict, init_values, steps) ==
    /\ CanCall(p)
    /\ EnterTmpEnv(p, "tmp_env",
                   DictUpdate(init_values, [pkcs11_opts_dict |-> pkcs11_opts_dict]),
                   << >>, NoVal, NoVal, steps)
    /\ UNCHANGED <<env, fs, pure>>

DescriptorValues == {NoVal, DictVal(EmptyDict), FullPkcs11Dict}

DescConfs == {MakeConf(l, AllCaOpts) : l \in {"ca_first", "ca_last", "ca_self"}}

DescInitValues ==
    {[ssl_conf |-> Conf(c), index_attr |-> DEFAULT_INDEX_ATTR_CONTENT,
      ca_cert |-> Text("CA-CERT"), index |-> Str(<< >>), serial |-> Str(<<"0", "A">>),
      csr |-> Text("CSR-PEM"), revoke_cert |-> Text("CERT-PEM")] : c \in DescConfs}
    \cup
    {[ssl_conf |-> Conf(c), index_attr |-> DEFAULT_INDEX_ATTR_CONTENT,
      ca_cert |-> Text("CA-CERT"), index |-> Str(<< >>), serial |-> Str(<<"0", "A">>),
      csr |-> Text("CSR-PEM"), revoke_cert |-> Text("CERT-PEM"),
      ca_key |-> Text("CA-KEY")] : c \in DescConfs}

DescSteps == {<<"sign">>, <<"gencrl">>, <<"revoke", "gencrl">>}

InitDesc ==
    /\ env \in {NoVal}
    /\ proc = [p \in Callers |-> IdleProc]
    /\ fs = [d \in TmpNames |-> NoDir]
    /\ pure = NoPure

NextDesc ==
    \/ \E p \in DOMAIN proc, d \in DescriptorValues, iv \in DescInitValues,
            steps \in DescSteps : TmpEnv(p, d, iv, steps)
    \/ \E p \in DOMAIN proc : Mkdtemp(p)
    \/ \E p \in DOMAIN proc : _prepare_dir_structures(p)
    \/ \E p \in DOMAIN proc : WriteNode(p)
    \/ \E p \in DOMAIN proc : CtorExcept(p)
    \/ \E p \in DOMAIN proc : ExecuteCommand(p)
    \/ \E p \in DOMAIN proc : Harvest(p)
    \/ \E p \in DOMAIN proc : Exit(p)
    \/ \E p \in DOMAIN proc : NextCall(p)

SpecDesc == InitDesc /\ [][NextDesc]_vars

-----------------------------------------------------------------------------
(* Properties of the two reactions to the descriptor (specification SpecDesc) *)

\* the adapted configuration of p holds the engine stanza
StanzaInjected(p) ==
    \E k \in 1..Len(AdaptedText(p)) : AdaptedText(p)[k] = SectLine("pkcs11_section")

HasEngineArgs(cmd) == \E k \in 1..Len(cmd) : cmd[k] = Word("-engine")

\* p is inside the with block, its next tool command to be put together
AboutToRun(p) == proc[p].pc = "body" /\ proc[p].steps # << >> /\ Adapted(p)

-----------------------------------------------------------------------------
(* Properties of what precedes the sandbox (specification Spec) *)

\* the errors of serial-number normalization and validation and of index
\* rendering
IsCodecError(e) == e.kind \in {"ValueError", "TypeError"}

\* p's current operation has made no directory, written no node, run no tool
\* and called no rmtree
NothingDone(p) ==
    /\ proc[p].dir = ""
    /\ proc[p].cmds = << >>
    /\ proc[p].cleanups = 0
    /\ \A n \in NodeNames : proc[p].writes[n] = 0 /\ proc[p].value[n] = NoVal

\* no directory exists and no file holds the key bytes of the bundle
NoKeyOnDisk ==
    \A d \in TmpNames :
        /\ ~fs[d].exists
        /\ \A n \in NodeNames : fs[d].files[n] = NoVal

\* the serial and index init values of p are the finished renderings of the
\* requested serial number and of the CA's records
RenderedBeforeSandbox(p) ==
    /\ proc[p].op = "sign" =>
          proc[p].init_values["serial"] =
              Bind(normalize_hex_serial_number(
                       proc[p].serial_number, CERTIFICATE_SERIAL_NUMBER_HEXDIGIT_NUM),
                   LAMBDA n : _format_openssl_serial_number(n)).v
    /\ proc[p].op = "revoke" =>
          proc[p].init_values["serial"] =
              _format_openssl_serial_number(proc[p].serial_number).v
    /\ proc[p].op \in {"crl", "revoke"} =>
          \E now \in Nows :
              LET index == _make_openssl_index_file_content(env.ca.certs, now)
              IN  index.ok /\ proc[p].init_values["index"] = Str(index.v)

\* C21: in each of the three operations the serial number and the index are
\* rendered before TmpEnv is constructed: an operation about to make its
\* directory already holds both renderings, and an operation that is failing
\* or has failed with a serial-number or timestamp error has made no
\* directory, written no node (so no key material), run no tool, and has
\* left nothing on disk.
C21_CodecsBeforeSandbox ==
    \A p \in DOMAIN proc :
        /\ proc[p].pc = "mkdtemp" => RenderedBeforeSandbox(p) /\ NothingDone(p)
        /\ IsCodecError(proc[p].err) =>
              /\ proc[p].pc = "raised"
              /\ NothingDone(p)
              /\ NoKeyOnDisk

\* C21 witness: a revocation on a CA that has a record with a timestamp that
\* is no datetime, its bundle holding raw key bytes, has raised the TypeError
\* with nothing done.
C21_Witness ==
    \E p \in DOMAIN proc :
        /\ proc[p].op = "revoke"
        /\ proc[p].pc = "raised"
        /\ proc[p].err = Err("TypeError")
        /\ "ca_key" \in DOMAIN env.tmp_env_init_kwargs_base
        /\ NothingDone(p)

=============================================================================
